---- MODULE Spec2Model ----
(***************************************************************************)
(* Model of the ReAct orchestration loop of xSmartDeepResearch             *)
(* (src/src/agent/react_agent.py, class xSmartReactAgent).                 *)
(*                                                                         *)
(* Text is a sequence of tokens.  Every protocol delimiter is one token,  *)
(* so the regular-expression and str.find/split operations of the code    *)
(* become searches for a token in a sequence.  CharLen gives the number   *)
(* of characters of a token, so len(content) is computed, not assumed.    *)
(***************************************************************************)
EXTENDS Integers, Sequences, FiniteSets, TLC

(* ---- class constants, react_agent.py:51-60 ---- *)
TOOL_CALL_START == "<tool_call>"
TOOL_CALL_END == "</tool_call>"
TOOL_RESPONSE_START == "<tool_response>"
TOOL_RESPONSE_END == "</tool_response>"
THINK_START == "<think>"
THINK_END == "</think>"
ANSWER_START == "<answer>"
ANSWER_END == "</answer>"
CODE_START == "<code>"
CODE_END == "</code>"

(* config/prompts.py:179; one token, 293 characters *)
FORCE_SUMMARIZE_PROMPT == "FORCE_SUMMARIZE_PROMPT"

(* react_agent.py:396, the string _call_llm returns when every attempt failed *)
LLM_FAILED == "LLM call failed after all retries"

(* ---- JSON bodies a model can put between tool-call delimiters ---- *)
J_SEARCH == "{name:'search',arguments:{query:['x']}}"
J_GHOST == "{name:'ghost',arguments:{}}"
J_VISIT == "{name:'visit',arguments:{url:'u'}}"
J_SCHOLAR == "{name:'google_scholar',arguments:{query:['x']}}"
J_PI == "{name:'PythonInterpreter',arguments:{code:'1'}}"
J_PARAMS == "{name:'search',parameters:{query:['y']}}"
J_NONAME == "{arguments:{query:['x']}}"
J_TRUNC == "{name:'search',arguments:'x'"
J_GARBAGE == "not json"

(* ---- bounds of the model ---- *)
(* largest iteration ceiling a run is started with *)
MaxIterBound == 5
(* the clock stops advancing once it is this far past the timeout *)
MaxOvertime == 1
(* longest transcript handed to _prune_messages on its own *)
MaxPruneLen == 10

(* ---- configuration of the modelled agent (small values of real settings) ---- *)
(* self.timeout_minutes, react_agent.py:72,90 *)
timeout_minutes == 1
(* self.max_tokens, react_agent.py:86 *)
max_tokens == 100
(* max_retries parameter of _call_llm, react_agent.py:369 *)
max_retries == 2
(* len(system_prompt), the text built by build_system_prompt *)
SystemPromptChars == 60

SYSTEM_PROMPT == "SYSTEM_PROMPT"
QUESTION == "what is x?"
QUESTION_B == "what is y?"

(* number of characters of a token: len() of the Python string *)
CharLen(t) ==
  CASE t = TOOL_CALL_START -> 11
    [] t = TOOL_CALL_END -> 12
    [] t = TOOL_RESPONSE_START -> 15
    [] t = TOOL_RESPONSE_END -> 16
    [] t = THINK_START -> 7
    [] t = THINK_END -> 8
    [] t = ANSWER_START -> 8
    [] t = ANSWER_END -> 9
    [] t = CODE_START -> 6
    [] t = CODE_END -> 7
    [] t = FORCE_SUMMARIZE_PROMPT -> 293
    [] t = LLM_FAILED -> 33
    [] t = J_SEARCH -> 39
    [] t = J_GHOST -> 27
    [] t = J_VISIT -> 34
    [] t = J_SCHOLAR -> 47
    [] t = J_PI -> 47
    [] t = J_PARAMS -> 40
    [] t = J_NONAME -> 25
    [] t = J_TRUNC -> 28
    [] t = J_GARBAGE -> 8
    [] t = SYSTEM_PROMPT -> SystemPromptChars
    [] t = QUESTION -> 10
    [] t = QUESTION_B -> 10
    [] t = "checking" -> 8
    [] t = "42" -> 2
    [] t = "obs" -> 3
    [] t = "a long passage" -> 400
    [] t = "ok" -> 2
    [] t = "1+1" -> 3
    [] t = " " -> 1
    [] t = "\n" -> 1
    [] t = "\n\n" -> 2
    [] t = "}" -> 1
    [] t = "[" -> 1
    [] t = "]" -> 1
    [] t = "'" -> 1
    [] t = ", " -> 2
    [] t = "search" -> 6
    [] t = "ghost" -> 5
    [] t = "visit" -> 5
    [] t = "google_scholar" -> 14
    [] t = "PythonInterpreter" -> 17
    [] t = "[Error] Tool '" -> 14
    [] t = "' not found. Available: " -> 24
    [] t = "Tool '" -> 6
    [] t = "' Output:\n" -> 10
    [] t = "[System Note: Earlier conversation turns have been removed to save tokens. Current token usage: " -> 96
    [] t = "N" -> 1

(* ---- str helpers ---- *)
Contains(s, t) == \E i \in 1..Len(s) : s[i] = t

(* str.find from position k (1-based); 0 when absent *)
IndexFrom(s, t, k) ==
  IF \E i \in k..Len(s) : s[i] = t
  THEN CHOOSE i \in k..Len(s) : s[i] = t /\ \A j \in k..(i-1) : s[j] # t
  ELSE 0

IndexOf(s, t) == IndexFrom(s, t, 1)

(* str.rfind; 0 when absent *)
LastIndexOf(s, t) ==
  IF Contains(s, t)
  THEN CHOOSE i \in 1..Len(s) : s[i] = t /\ \A j \in (i+1)..Len(s) : s[j] # t
  ELSE 0

IsSpace(t) == t \in {" ", "\n", "\n\n"}

(* str.strip() *)
Strip(s) ==
  IF \A i \in 1..Len(s) : IsSpace(s[i]) THEN <<>>
  ELSE LET a == CHOOSE i \in 1..Len(s) : ~IsSpace(s[i]) /\ \A j \in 1..(i-1) : IsSpace(s[j])
           b == CHOOSE i \in 1..Len(s) : ~IsSpace(s[i]) /\ \A j \in (i+1)..Len(s) : IsSpace(s[j])
       IN SubSeq(s, a, b)

(* str.replace(t, "") for each t in ts *)
RECURSIVE RemoveAll(_, _)
RemoveAll(s, ts) ==
  IF s = <<>> THEN <<>>
  ELSE IF Head(s) \in ts THEN RemoveAll(Tail(s), ts)
  ELSE <<Head(s)>> \o RemoveAll(Tail(s), ts)

(* len(str) *)
RECURSIVE StrLen(_)
StrLen(s) == IF s = <<>> THEN 0 ELSE CharLen(Head(s)) + StrLen(Tail(s))

(* re.search(open(.*?)close, s, DOTALL) looking from position k: the leftmost *)
(* open that has a close after it, and the nearest such close                 *)
RegexSearchFrom(s, open, close, k) ==
  LET i == IndexFrom(s, open, k)
      j == IF i = 0 THEN 0 ELSE IndexFrom(s, close, i + 1)
  IN IF j = 0 THEN [found |-> FALSE, body |-> <<>>, end |-> 0]
     ELSE [found |-> TRUE, body |-> SubSeq(s, i + 1, j - 1), end |-> j]

RegexSearch(s, open, close) == RegexSearchFrom(s, open, close, 1)

(* ---- Protocol codec: react_agent.py:224-236, 398-495 ---- *)

(* lines 218-220: cut the response at the first tool-result-start delimiter *)
TruncateAtToolResponse(resp) ==
  IF Contains(resp, TOOL_RESPONSE_START)
  THEN SubSeq(resp, 1, IndexOf(resp, TOOL_RESPONSE_START) - 1)
  ELSE resp

(* lines 233-235: for tag in [TOOL_CALL_START, ANSWER_START]: cut at the first tag *)
CutAtTag(s, tag) ==
  IF Contains(s, tag) THEN Strip(SubSeq(s, 1, IndexOf(s, tag) - 1)) ELSE s

(* lines 225-236: the think content of a response; <<>> when there is none *)
ExtractThink(response) ==
  IF ~Contains(response, THINK_START) THEN <<>>
  ELSE LET m == RegexSearch(response, THINK_START, THINK_END)
       IN IF m.found THEN Strip(m.body)
          ELSE LET last == Strip(SubSeq(response, LastIndexOf(response, THINK_START) + 1,
                                        Len(response)))
               IN CutAtTag(CutAtTag(last, TOOL_CALL_START), ANSWER_START)

(* a variant in which a tool call in the same text outranks the answer *)
HasAnswerUnlessToolCall(content) ==
  Contains(content, ANSWER_START) /\ ~Contains(content, TOOL_CALL_START)

(* _has_answer, line 400 *)
HasAnswer(content) == Contains(content, ANSWER_START)

(* a variant without the branch for an open delimiter left unclosed *)
ExtractAnswerClosedOnly(content) ==
  LET m == RegexSearch(content, ANSWER_START, ANSWER_END)
  IN IF m.found THEN Strip(m.body) ELSE Strip(content)

(* _extract_answer, lines 402-413 *)
ExtractAnswer(content) ==
  LET m == RegexSearch(content, ANSWER_START, ANSWER_END)
  IN IF m.found THEN Strip(m.body)
     ELSE IF Contains(content, ANSWER_START)
     THEN Strip(SubSeq(content, LastIndexOf(content, ANSWER_START) + 1, Len(content)))
     ELSE Strip(content)

(* json5.loads of the text: ok = FALSE when it raises.  name = "" stands for  *)
(* a missing name (None); a missing "arguments" falls back to "parameters"    *)
(* and then to {} in the caller.                                              *)
NoDoc == [ok |-> FALSE, name |-> "", has_args |-> FALSE, arguments |-> <<>>,
          has_params |-> FALSE, parameters |-> <<>>]

Doc(n, ha, a, hp, p) == [ok |-> TRUE, name |-> n, has_args |-> ha, arguments |-> a,
                         has_params |-> hp, parameters |-> p]

Json5Loads(text) ==
  CASE text = <<J_SEARCH>> -> Doc("search", TRUE, <<"{query:['x']}">>, FALSE, <<>>)
    [] text = <<J_GHOST>> -> Doc("ghost", TRUE, <<"{}">>, FALSE, <<>>)
    [] text = <<J_VISIT>> -> Doc("visit", TRUE, <<"{url:'u'}">>, FALSE, <<>>)
    [] text = <<J_SCHOLAR>> -> Doc("google_scholar", TRUE, <<"{query:['x']}">>, FALSE, <<>>)
    [] text = <<J_PI>> -> Doc("PythonInterpreter", TRUE, <<"{code:'1'}">>, FALSE, <<>>)
    [] text = <<J_PARAMS>> -> Doc("search", FALSE, <<>>, TRUE, <<"{query:['y']}">>)
    [] text = <<J_NONAME>> -> Doc("", TRUE, <<"{query:['x']}">>, FALSE, <<>>)
    [] text = <<J_TRUNC, "}">> -> Doc("search", TRUE, <<"'x'">>, FALSE, <<>>)
    [] OTHER -> NoDoc

(* str.endswith('}') *)
EndsWithBrace(text) ==
  /\ text # <<>>
  /\ text[Len(text)] \in {"}", J_SEARCH, J_GHOST, J_VISIT, J_SCHOLAR, J_PI, J_PARAMS, J_NONAME}

(* lines 442-444 and 467: append a closing brace when the text does not end with one *)
FixBrace(text) == IF EndsWithBrace(text) THEN text ELSE text \o <<"}">>

(* lines 431-456: one matched block to zero or one tool call *)
ParseBlock(body) ==
  LET str == RemoveAll(Strip(body), {"</arg_value>", "<arg_value>", "</tool_code>", "<tool_code>"})
      first == Json5Loads(str)
      doc == IF first.ok THEN first ELSE Json5Loads(FixBrace(Strip(str)))
  IN IF doc.ok /\ doc.name # ""
     THEN <<[name |-> doc.name,
             arguments |-> IF doc.has_args THEN doc.arguments
                           ELSE IF doc.has_params THEN doc.parameters ELSE <<"{}">>]>>
     ELSE <<>>

(* a variant that parses the first closed block only *)
ClosedBlocksFirstOnly(content, k) ==
  LET m == RegexSearchFrom(content, TOOL_CALL_START, TOOL_CALL_END, k)
  IN IF m.found THEN ParseBlock(m.body) ELSE <<>>

(* lines 427-430: re.finditer over the non-overlapping closed blocks, left to right *)
RECURSIVE ClosedBlocks(_, _)
ClosedBlocks(content, k) ==
  LET m == RegexSearchFrom(content, TOOL_CALL_START, TOOL_CALL_END, k)
  IN IF m.found THEN ParseBlock(m.body) \o ClosedBlocks(content, m.end + 1) ELSE <<>>

(* lines 459-475: nothing parsed and an open delimiter exists: repair the last one *)
UnclosedBlock(content) ==
  LET potential == Strip(SubSeq(content, LastIndexOf(content, TOOL_CALL_START) + 1, Len(content)))
      doc == Json5Loads(FixBrace(potential))
  IN IF potential # <<>> /\ doc.ok /\ doc.name # ""
     THEN <<[name |-> doc.name,
             arguments |-> IF doc.has_args THEN doc.arguments ELSE <<"{}">>]>>
     ELSE <<>>

(* a variant that adds the implicit call whatever was parsed before *)
CodeShortcutAlways(content, tool_calls) ==
  LET m == RegexSearch(content, CODE_START, CODE_END)
  IN IF m.found THEN <<[name |-> "PythonInterpreter", arguments |-> Strip(m.body)]>> ELSE <<>>

(* lines 481-493: a raw code block is an implicit PythonInterpreter call *)
CodeShortcut(content, tool_calls) ==
  IF Contains(content, CODE_START) /\ Contains(content, CODE_END)
  THEN LET has_pi == \E i \in 1..Len(tool_calls) : tool_calls[i].name = "PythonInterpreter"
           m == RegexSearch(content, CODE_START, CODE_END)
       IN IF ~has_pi /\ m.found
          THEN <<[name |-> "PythonInterpreter", arguments |-> Strip(m.body)]>>
          ELSE <<>>
  ELSE <<>>

(* _extract_tool_calls, lines 420-495 *)
ExtractToolCalls(content) ==
  LET closed == ClosedBlocks(content, 1)
      calls == IF closed = <<>> /\ Contains(content, TOOL_CALL_START)
               THEN UnclosedBlock(content) ELSE closed
  IN calls \o CodeShortcut(content, calls)

(* ---- Token budget tracker: react_agent.py:497-513, 548-566 ---- *)
RECURSIVE TotalChars(_)
TotalChars(msgs) ==
  IF msgs = <<>> THEN 0 ELSE StrLen(Head(msgs).content) + TotalChars(Tail(msgs))

(* a variant that counts the characters of the last message only *)
CountTokensLastOnly(msgs) ==
  IF msgs = <<>> THEN 0 ELSE StrLen(msgs[Len(msgs)].content) \div 4

(* _count_tokens, lines 506-509: the fallback when no tokenizer is loaded *)
CountTokens(msgs) == TotalChars(msgs) \div 4

(* str(n): one token "N" for each decimal digit *)
NumberText(n) ==
  IF n < 10 THEN <<"N">>
  ELSE IF n < 100 THEN <<"N", "N">>
  ELSE IF n < 1000 THEN <<"N", "N", "N">>
  ELSE <<"N", "N", "N", "N">>

(* a variant that keeps the last eight messages as the tail *)
PruneMessagesKeepEight(msgs) ==
  IF Len(msgs) <= 8 THEN msgs
  ELSE LET kept_head == SubSeq(msgs, 1, 2)
           kept_tail == SubSeq(msgs, Len(msgs) - 7, Len(msgs))
           pruned_notice ==
             [role |-> "system",
              content |-> <<"[System Note: Earlier conversation turns have been removed to save tokens. Current token usage: ">>
                          \o NumberText(CountTokens(kept_head \o kept_tail)) \o <<"]">>]
       IN kept_head \o <<pruned_notice>> \o kept_tail

(* a variant that keeps the last eight messages and not the first two *)
PruneMessagesTailOnly(msgs) ==
  IF Len(msgs) <= 8 THEN msgs ELSE SubSeq(msgs, Len(msgs) - 7, Len(msgs))

(* _prune_messages, lines 548-566 *)
PruneMessages(msgs) ==
  IF Len(msgs) <= 8 THEN msgs
  ELSE LET kept_head == SubSeq(msgs, 1, 2)
           kept_tail == SubSeq(msgs, Len(msgs) - 5, Len(msgs))
           pruned_notice ==
             [role |-> "system",
              content |-> <<"[System Note: Earlier conversation turns have been removed to save tokens. Current token usage: ">>
                          \o NumberText(CountTokens(kept_head \o kept_tail)) \o <<"]">>]
       IN kept_head \o <<pruned_notice>> \o kept_tail

(* ---- the agent and its collaborators ---- *)

(* the runs of stream_run on the one agent instance *)
Runs == {"A", "B"}

(* the run of a specification in which one request is served at a time *)
SoloRuns == {"A"}

(* the question parameter of each run of stream_run *)
question(r) == IF r = "A" THEN QUESTION ELSE QUESTION_B

(* a variant in which the transcript is kept on the agent instance, which *)
(* every run shares                                                       *)
TranscriptOfAgent(r) == "A"

(* stream_run, line 198: messages is a local variable of the generator, so *)
(* each run reads and writes the list it created itself                    *)
TranscriptOf(r) == r

(* list(self.tools.keys()), react_agent.py:101; registration order of get_agent *)
tools == <<"search", "google_scholar", "visit", "PythonInterpreter">>

Registered(name) == \E i \in 1..Len(tools) : tools[i] = name

(* What self.tools[name].call(args) is, react_agent.py:282:                  *)
(*  coroutine     - async def call (search_tool.py:48, python_tool.py:96):   *)
(*                  an awaitable that later returns a string or raises       *)
(*  not_awaitable - def call returning a str (scholar_tool.py:43)            *)
(*  sync_raise    - def call that raises at once: asyncio.run inside the     *)
(*                  running event loop (visit_tool.py:71-81)                 *)
CallKind(name) ==
  CASE name = "visit" -> "sync_raise"
    [] name = "google_scholar" -> "not_awaitable"
    [] OTHER -> "coroutine"

(* repr of a list of names: ['a', 'b'] *)
RECURSIVE ListItems(_)
ListItems(names) ==
  IF names = <<>> THEN <<>>
  ELSE <<"'", Head(names), "'">> \o
       (IF Len(names) > 1 THEN <<", ">> ELSE <<>>) \o ListItems(Tail(names))

ListRepr(names) == <<"[">> \o ListItems(names) \o <<"]">>

(* _not_found_task, react_agent.py:286-287 *)
NotFoundText(t_name) ==
  <<"[Error] Tool '", t_name, "' not found. Available: ">> \o ListRepr(tools)

(* the text a registered tool returns when its call succeeds *)
ToolOutput(name) == <<"ok">>

(* what chat.completions.create can return as message content *)
C_ANSWER == <<THINK_START, "checking", THINK_END, ANSWER_START, "42", ANSWER_END>>
C_TOOL == <<TOOL_CALL_START, J_SEARCH, TOOL_CALL_END>>
C_MIXED == <<TOOL_CALL_START, J_GHOST, TOOL_CALL_END, "\n", TOOL_CALL_START, J_SEARCH, TOOL_CALL_END>>
C_NOOP == <<" ", THINK_START, "checking">>
C_TOOL_ANSWER == <<TOOL_CALL_START, J_SEARCH, TOOL_CALL_END, ANSWER_START, "42">>
C_ANSWER_TOOL == <<ANSWER_START, "42", ANSWER_END, TOOL_CALL_START, J_SEARCH, TOOL_CALL_END>>
C_HALLUCINATED == <<TOOL_CALL_START, J_SEARCH, TOOL_CALL_END, TOOL_RESPONSE_START, "obs",
                    TOOL_RESPONSE_END, ANSWER_START, "42", ANSWER_END>>
C_VISIT == <<TOOL_CALL_START, J_VISIT, TOOL_CALL_END, TOOL_CALL_START, J_SEARCH, TOOL_CALL_END>>
C_SCHOLAR == <<TOOL_CALL_START, J_SEARCH, TOOL_CALL_END, TOOL_CALL_START, J_SCHOLAR, TOOL_CALL_END>>
C_BLANK == <<" ">>
C_LONG == <<"a long passage">>

LLMContents == {C_ANSWER, C_TOOL, C_MIXED, C_NOOP, C_TOOL_ANSWER, C_ANSWER_TOOL,
                C_HALLUCINATED, C_VISIT, C_SCHOLAR, C_BLANK, C_LONG}

(* ---- state ---- *)
VARIABLES
  max_iterations,      \* self.max_iterations
  current_session_id,  \* self.current_session_id, 0 for None
  n_sessions,          \* sessions created by the session manager
  db,                  \* rows written by SessionManager.add_message
  now,                 \* time.time(), in minutes
  pc,                  \* where each run of stream_run is
  start_time,          \* local start_time
  iterations,          \* local iterations
  messages,            \* local messages (the transcript)
  response,            \* local response, after truncation
  tool_calls,          \* local tool_calls
  tasks,               \* local execution_tasks, with the state of each
  idx,                 \* position of the for loop in progress
  combined,            \* local combined_tool_outputs
  attempt,             \* loop variable of _call_llm
  events,              \* what the generator has yielded
  llm_calls,           \* number of _call_llm calls made
  endpoint,            \* event_generator of stream_research and its caller, or the background tasks
  invoked,             \* the tool.call(...) calls made: name and iteration
  returned,            \* what the last _call_llm returned, and to which caller
  resolved,            \* indices of the tasks of the batch, in completion order
  outcome,             \* how the last attempt of _call_llm went: raise, blank or text
  arg,                 \* the argument of a function applied on its own
  ret                  \* whether it has returned, and its return value

vars == <<endpoint, max_iterations, current_session_id, n_sessions, db, now, pc, start_time,
          iterations, messages, response, tool_calls, tasks, idx, combined, attempt,
          events, llm_calls, invoked, returned, resolved, outcome, arg, ret>>

(* an event dictionary; absent keys are "" or 0.  The messages key of the *)
(* final event is the list object held by the messages variable.          *)
Event(type, content, tool, iteration, termination) ==
  [type |-> type, content |-> content, tool |-> tool, iteration |-> iteration,
   termination |-> termination]

Status(content) == Event("status", content, "", 0, "")

(* SessionManager.add_message(self.current_session_id, role, ...) made by run r *)
Row(r, role) == [session |-> current_session_id, role |-> role, run |-> r]

(* the agent after __init__, lines 62-104, with no run of stream_run started *)
AgentInit ==
  /\ current_session_id = 0
  /\ n_sessions = 0
  /\ db = <<>>
  /\ now = 0
  /\ pc = [r \in Runs |-> "idle"]
  /\ start_time = [r \in Runs |-> 0]
  /\ iterations = [r \in Runs |-> 0]
  /\ messages = [r \in Runs |-> <<>>]
  /\ response = [r \in Runs |-> <<>>]
  /\ tool_calls = [r \in Runs |-> <<>>]
  /\ tasks = [r \in Runs |-> <<>>]
  /\ idx = [r \in Runs |-> 0]
  /\ combined = [r \in Runs |-> <<>>]
  /\ attempt = [r \in Runs |-> 0]
  /\ events = [r \in Runs |-> <<>>]
  /\ llm_calls = [r \in Runs |-> 0]
  /\ invoked = [r \in Runs |-> <<>>]
  /\ returned = [r \in Runs |-> [caller |-> "none", text |-> <<>>]]
  /\ resolved = [r \in Runs |-> <<>>]
  /\ outcome = [r \in Runs |-> "none"]

NotCalled == [done |-> FALSE, value |-> <<>>]

(* no request to POST /stream has been received *)
NoRequest ==
  [pc |-> "idle", taken |-> 0, forwarded |-> <<>>, disconnected |-> FALSE,
   observed |-> FALSE, final_answer_data |-> <<>>, task |-> "none"]

Init ==
  /\ max_iterations \in 1..MaxIterBound
  /\ AgentInit
  /\ endpoint = NoRequest
  /\ arg = <<>>
  /\ ret = NotCalled

(* time passes while a run waits for a collaborator *)
Tick ==
  /\ \E r \in Runs : pc[r] \in {"classify", "llm", "force_llm", "gather"}
  /\ now < timeout_minutes + MaxOvertime
  /\ now' = now + 1
  /\ UNCHANGED <<endpoint, arg, ret, outcome, max_iterations, current_session_id, n_sessions, db, pc, start_time,
                 iterations, messages, response, tool_calls, tasks, idx, combined,
                 attempt, events, llm_calls, invoked, returned, resolved>>

(* stream_run, lines 166-174: first status, then await the classifier *)
Start(r) ==
  /\ pc[r] = "idle"
  /\ start_time' = [start_time EXCEPT ![r] = now]
  /\ events' = [events EXCEPT ![r] = Append(@, Status(<<"Identifying research intent...">>))]
  /\ db' = IF current_session_id # 0 THEN Append(db, Row(r, "status")) ELSE db
  /\ pc' = [pc EXCEPT ![r] = "classify"]
  /\ UNCHANGED <<endpoint, arg, ret, outcome, max_iterations, current_session_id, n_sessions, now, iterations, messages,
                 response, tool_calls, tasks, idx, combined, attempt, llm_calls, invoked, returned, resolved>>

(* stream_run, lines 174-203: intent status, new session, initial transcript *)
Classified(r) ==
  /\ pc[r] = "classify"
  /\ events' = [events EXCEPT ![r] = Append(@, Status(<<"Intent: ", "GENERAL">>))]
  /\ n_sessions' = n_sessions + 1
  /\ current_session_id' = n_sessions + 1
  /\ db' = db \o <<[session |-> n_sessions + 1, role |-> "user", run |-> r],
                   [session |-> n_sessions + 1, role |-> "status", run |-> r]>>
  /\ messages' = [messages EXCEPT ![TranscriptOf(r)] = <<[role |-> "system", content |-> <<SYSTEM_PROMPT>>],
                                           [role |-> "user", content |-> <<question(r)>>]>>]
  /\ iterations' = [iterations EXCEPT ![r] = 0]
  /\ pc' = [pc EXCEPT ![r] = "iter"]
  /\ UNCHANGED <<endpoint, arg, ret, outcome, max_iterations, now, start_time, response, tool_calls, tasks, idx,
                 combined, attempt, llm_calls, invoked, returned, resolved>>

Elapsed(r) == now - start_time[r]

(* a variant of the timeout test that already fires at the ceiling *)
TimedOutInclusive(r) == Elapsed(r) >= timeout_minutes

(* stream_run, lines 206-207: elapsed_minutes > self.timeout_minutes *)
TimedOut(r) == Elapsed(r) > timeout_minutes

(* stream_run, lines 205-209: the timeout check at the head of the loop body *)
Timeout(r) ==
  /\ pc[r] = "iter"
  /\ iterations[r] < max_iterations
  /\ TimedOut(r)
  /\ events' = [events EXCEPT ![r] = Append(@, Event("timeout", <<"Research timeout">>, "", 0, ""))]
  /\ pc' = [pc EXCEPT ![r] = "done"]
  /\ UNCHANGED <<endpoint, arg, ret, outcome, max_iterations, current_session_id, n_sessions, db, now, start_time,
                 iterations, messages, response, tool_calls, tasks, idx, combined,
                 attempt, llm_calls, invoked, returned, resolved>>

(* a variant whose loop condition lets one more iteration start *)
IterBeginPastCeiling(r) ==
  /\ pc[r] = "iter"
  /\ iterations[r] < max_iterations + 1
  /\ ~TimedOut(r)
  /\ iterations' = [iterations EXCEPT ![r] = @ + 1]
  /\ events' = [events EXCEPT ![r] =
                  Append(@, Event("status", <<"Iteration ", "N", "...">>, "", iterations[r] + 1, ""))]
  /\ db' = Append(db, Row(r, "status"))
  /\ attempt' = [attempt EXCEPT ![r] = 0]
  /\ llm_calls' = [llm_calls EXCEPT ![r] = @ + 1]
  /\ pc' = [pc EXCEPT ![r] = "llm"]
  /\ outcome' = [outcome EXCEPT ![r] = "none"]
  /\ UNCHANGED <<endpoint, arg, ret, max_iterations, current_session_id, n_sessions, now, start_time, messages,
                 response, tool_calls, tasks, idx, combined, invoked, returned, resolved>>

(* stream_run, lines 211-216: count the iteration, status, enter _call_llm *)
IterBegin(r) ==
  /\ pc[r] = "iter"
  /\ iterations[r] < max_iterations
  /\ ~TimedOut(r)
  /\ iterations' = [iterations EXCEPT ![r] = @ + 1]
  /\ events' = [events EXCEPT ![r] =
                  Append(@, Event("status", <<"Iteration ", "N", "...">>, "", iterations[r] + 1, ""))]
  /\ db' = Append(db, Row(r, "status"))
  /\ attempt' = [attempt EXCEPT ![r] = 0]
  /\ llm_calls' = [llm_calls EXCEPT ![r] = @ + 1]
  /\ pc' = [pc EXCEPT ![r] = "llm"]
  /\ outcome' = [outcome EXCEPT ![r] = "none"]
  /\ UNCHANGED <<endpoint, arg, ret, max_iterations, current_session_id, n_sessions, now, start_time, messages,
                 response, tool_calls, tasks, idx, combined, invoked, returned, resolved>>

(* a variant that reports the ceiling without the error event *)
MaxIterationsFinalOnly(n) ==
  <<Event("final_answer", <<"Max iterations reached without final answer">>, "", n,
          "max_iterations_exceeded")>>

(* stream_run, lines 359-366: the two events after the loop *)
MaxIterationsEvents(n) ==
  <<Event("error", <<"Max iterations exceeded">>, "", 0, ""),
    Event("final_answer", <<"Max iterations reached without final answer">>, "", n,
          "max_iterations_exceeded")>>

(* stream_run, lines 205 and 359-366: the loop condition failed *)
MaxIterations(r) ==
  /\ pc[r] = "iter"
  /\ ~(iterations[r] < max_iterations)
  /\ events' = [events EXCEPT ![r] = @ \o MaxIterationsEvents(iterations[r])]
  /\ pc' = [pc EXCEPT ![r] = "done"]
  /\ UNCHANGED <<endpoint, arg, ret, outcome, max_iterations, current_session_id, n_sessions, db, now, start_time,
                 iterations, messages, response, tool_calls, tasks, idx, combined,
                 attempt, llm_calls, invoked, returned, resolved>>

(* stream_run, lines 218-261: what the loop does with the text _call_llm returned *)
ThinkEvents(resp) ==
  IF ExtractThink(resp) # <<>> THEN <<Event("think", ExtractThink(resp), "", 0, "")>> ELSE <<>>

ThinkRows(r, resp) ==
  IF ExtractThink(resp) # <<>> THEN <<Row(r, "thought")>> ELSE <<>>

(* a variant that yields the final event without the answer event before it *)
AnswerEventsFinalOnly(resp, n) ==
  <<Event("final_answer", ExtractAnswer(resp), "", n, "answer")>>

(* a variant that yields the final event before the answer event *)
AnswerEventsFinalFirst(resp, n) ==
  <<Event("final_answer", ExtractAnswer(resp), "", n, "answer"),
    Event("answer", ExtractAnswer(resp), "", 0, "")>>

(* stream_run, lines 244-256: the two events of a final answer *)
AnswerEvents(resp, n) ==
  <<Event("answer", ExtractAnswer(resp), "", 0, ""),
    Event("final_answer", ExtractAnswer(resp), "", n, "answer")>>

HandleResponse(r, text) ==
  LET resp == TruncateAtToolResponse(text)
      calls == ExtractToolCalls(resp)
  IN /\ response' = [response EXCEPT ![r] = resp]
     /\ messages' = [messages EXCEPT ![TranscriptOf(r)] =
                       Append(@, [role |-> "assistant", content |-> Strip(resp)])]
     /\ IF HasAnswer(resp)
        THEN /\ events' = [events EXCEPT ![r] =
                             @ \o ThinkEvents(resp) \o AnswerEvents(resp, iterations[r])]
             /\ db' = db \o ThinkRows(r, resp) \o <<Row(r, "answer")>>
             /\ pc' = [pc EXCEPT ![r] = "done"]
             /\ UNCHANGED <<tool_calls, tasks, idx>>
        ELSE /\ events' = [events EXCEPT ![r] = @ \o ThinkEvents(resp)]
             /\ db' = db \o ThinkRows(r, resp)
             /\ tool_calls' = [tool_calls EXCEPT ![r] = calls]
             /\ tasks' = [tasks EXCEPT ![r] = <<>>]
             /\ idx' = [idx EXCEPT ![r] = 1]
             /\ pc' = [pc EXCEPT ![r] = IF calls # <<>> THEN "tool_start" ELSE "token"]
     /\ returned' = [returned EXCEPT ![r] = [caller |-> "loop", text |-> text]]
     /\ UNCHANGED <<endpoint, arg, ret, max_iterations, current_session_id, n_sessions, now, start_time,
                    iterations, combined, attempt, llm_calls, invoked, resolved>>

(* a variant that asks for a closed answer block *)
ForcedTerminationClosedOnly(text) ==
  IF RegexSearch(text, ANSWER_START, ANSWER_END).found THEN "token_limit_forced_answer"
  ELSE "token_limit_format_error"

(* _force_summarize, lines 531-536: the termination of a forced summary *)
ForcedTermination(text) ==
  IF HasAnswer(text) THEN "token_limit_forced_answer" ELSE "token_limit_format_error"

(* _force_summarize, lines 529-546, and stream_run, lines 349-357 *)
HandleForced(r, text) ==
  LET prediction == IF HasAnswer(text) THEN ExtractAnswer(text) ELSE text
      termination == ForcedTermination(text)
  IN /\ messages' = [messages EXCEPT ![TranscriptOf(r)] =
                       Append(@, [role |-> "assistant", content |-> Strip(text)])]
     /\ events' = [events EXCEPT ![r] =
                     @ \o <<Event("answer", prediction, "", 0, ""),
                            Event("final_answer", prediction, "", iterations[r], termination)>>]
     /\ pc' = [pc EXCEPT ![r] = "done"]
     /\ returned' = [returned EXCEPT ![r] = [caller |-> "forced", text |-> text]]
     /\ UNCHANGED <<endpoint, arg, ret, max_iterations, current_session_id, n_sessions, db, now, start_time,
                    iterations, response, tool_calls, tasks, idx, combined, attempt,
                    llm_calls, invoked, resolved>>

(* the caller of _call_llm takes its return value *)
Return(r, text) ==
  IF pc[r] = "llm" THEN HandleResponse(r, text) ELSE HandleForced(r, text)

(* a variant of the loop bound that allows one attempt more *)
LastAttemptOneMore(a) == a = max_retries

(* _call_llm, line 373: for attempt in range(max_retries) *)
LastAttempt(a) == a = max_retries - 1

(* _call_llm, lines 375-387: an attempt that gets non-blank content returns it stripped *)
LLMReturns(r, contents) ==
  /\ pc[r] \in {"llm", "force_llm"}
  /\ \E content \in contents :
       /\ Strip(content) # <<>>
       /\ Return(r, Strip(content))
  /\ outcome' = [outcome EXCEPT ![r] = "text"]

LLMRespond(r) == LLMReturns(r, LLMContents)

(* _call_llm, lines 385-394: an attempt that raised or got blank content, *)
(* with attempts left: sleep and try again                                *)
LLMRetry(r) ==
  /\ pc[r] \in {"llm", "force_llm"}
  /\ ~LastAttempt(attempt[r])
  /\ \E content \in LLMContents \cup {<<"raise">>} :
       /\ content = <<"raise">> \/ Strip(content) = <<>>
       /\ outcome' = [outcome EXCEPT ![r] = IF content = <<"raise">> THEN "raise" ELSE "blank"]
  /\ attempt' = [attempt EXCEPT ![r] = @ + 1]
  /\ UNCHANGED <<endpoint, arg, ret, max_iterations, current_session_id, n_sessions, db, now, pc, start_time,
                 iterations, messages, response, tool_calls, tasks, idx, combined,
                 events, llm_calls, invoked, returned, resolved>>

(* _call_llm, line 396: the last attempt failed too *)
LLMGiveUp(r) ==
  /\ pc[r] \in {"llm", "force_llm"}
  /\ LastAttempt(attempt[r])
  /\ \E content \in LLMContents \cup {<<"raise">>} :
       /\ content = <<"raise">> \/ Strip(content) = <<>>
       /\ outcome' = [outcome EXCEPT ![r] = IF content = <<"raise">> THEN "raise" ELSE "blank"]
  /\ Return(r, <<LLM_FAILED>>)

(* a variant without the membership test: an unknown name raises KeyError *)
DispatchWithoutLookup(name) == IF Registered(name) THEN CallKind(name) ELSE "sync_raise"

(* stream_run, lines 280-289: a registered tool is called, any other name *)
(* gets the coroutine of _not_found_task                                  *)
Dispatch(name) == IF Registered(name) THEN CallKind(name) ELSE "not_found"

(* stream_run, lines 266-289: one pass of the for loop over tool_calls:    *)
(* yield tool_start, then build the awaitable of the invocation            *)
ToolStart(r) ==
  /\ pc[r] = "tool_start"
  /\ LET tc == tool_calls[r][idx[r]]
         kind == Dispatch(tc.name)
     IN /\ events' = [events EXCEPT ![r] =
                        Append(@, Event("tool_start", <<"Calling tool: ", tc.name>>, tc.name,
                                        iterations[r], ""))]
        /\ invoked' = [invoked EXCEPT ![r] =
                         IF Registered(tc.name)
                         THEN Append(@, [name |-> tc.name, iteration |-> iterations[r]])
                         ELSE @]
        /\ IF kind = "sync_raise"
           THEN /\ pc' = [pc EXCEPT ![r] = "raised"]
                /\ UNCHANGED <<tasks, idx>>
           ELSE /\ tasks' = [tasks EXCEPT ![r] =
                               Append(@, [name |-> tc.name, kind |-> kind,
                                          state |-> IF kind = "not_awaitable" THEN "value"
                                                    ELSE "created",
                                          result |-> IF kind = "not_awaitable"
                                                     THEN ToolOutput(tc.name) ELSE <<>>])]
                /\ idx' = [idx EXCEPT ![r] = @ + 1]
                /\ pc' = [pc EXCEPT ![r] = IF idx[r] = Len(tool_calls[r]) THEN "gather_call"
                                           ELSE "tool_start"]
  /\ UNCHANGED <<endpoint, arg, ret, outcome, max_iterations, current_session_id, n_sessions, db, now, start_time,
                 iterations, messages, response, tool_calls, combined, attempt, llm_calls,
                 returned, resolved>>

(* stream_run, line 293: asyncio.gather over execution_tasks schedules *)
(* coroutines; an argument that is not awaitable makes it raise TypeError   *)
GatherCall(r) ==
  /\ pc[r] = "gather_call"
  /\ IF \E i \in 1..Len(tasks[r]) : tasks[r][i].state = "value"
     THEN /\ pc' = [pc EXCEPT ![r] = "raised"]
          /\ UNCHANGED tasks
     ELSE /\ pc' = [pc EXCEPT ![r] = "gather"]
          /\ tasks' = [tasks EXCEPT ![r] =
                         [i \in 1..Len(tasks[r]) |-> [tasks[r][i] EXCEPT !.state = "running"]]]
  /\ UNCHANGED <<endpoint, arg, ret, outcome, max_iterations, current_session_id, n_sessions, db, now, start_time,
                 iterations, messages, response, tool_calls, idx, combined, attempt,
                 events, llm_calls, invoked, returned>>
  /\ resolved' = [resolved EXCEPT ![r] = <<>>]

(* a scheduled tool coroutine returns its text *)
ToolReturns(r, i) ==
  /\ pc[r] = "gather"
  /\ i \in 1..Len(tasks[r])
  /\ tasks[r][i].state = "running"
  /\ tasks' = [tasks EXCEPT ![r][i] =
                 [@ EXCEPT !.state = "done",
                           !.result = IF tasks[r][i].kind = "not_found"
                                      THEN NotFoundText(tasks[r][i].name)
                                      ELSE ToolOutput(tasks[r][i].name)]]
  /\ UNCHANGED <<endpoint, arg, ret, outcome, max_iterations, current_session_id, n_sessions, db, now, pc, start_time,
                 iterations, messages, response, tool_calls, idx, combined, attempt,
                 events, llm_calls, invoked, returned>>
  /\ resolved' = [resolved EXCEPT ![r] = Append(@, i)]

(* a scheduled coroutine of a registered tool raises; _not_found_task cannot *)
ToolRaises(r, i) ==
  /\ pc[r] = "gather"
  /\ i \in 1..Len(tasks[r])
  /\ tasks[r][i].state = "running"
  /\ tasks[r][i].kind = "coroutine"
  /\ tasks' = [tasks EXCEPT ![r][i] = [@ EXCEPT !.state = "raised"]]
  /\ UNCHANGED <<endpoint, arg, ret, outcome, max_iterations, current_session_id, n_sessions, db, now, pc, start_time,
                 iterations, messages, response, tool_calls, idx, combined, attempt,
                 events, llm_calls, invoked, returned>>
  /\ resolved' = [resolved EXCEPT ![r] = Append(@, i)]

(* a variant of the join that returns at the first completed awaitable *)
JoinedFirstCompleted(ts) == \E i \in 1..Len(ts) : ts[i].state = "done"

(* a variant of the join that does not wait for the last awaitable *)
JoinedWithoutLast(ts) == \A i \in 1..(Len(ts) - 1) : ts[i].state = "done"

(* asyncio.gather completes when every awaitable has completed *)
Joined(ts) == \A i \in 1..Len(ts) : ts[i].state = "done"

(* a variant that hands the results over in the order of completion *)
GatherResultsInCompletionOrder(ts, order) == [i \in 1..Len(ts) |-> ts[order[i]].result]

(* the list asyncio.gather returns: the results in the order of its arguments, *)
(* whatever the order of completion                                            *)
GatherResults(ts, order) == [i \in 1..Len(ts) |-> ts[i].result]

(* stream_run, line 293: gather returns the results once every task is done *)
GatherReturn(r) ==
  /\ pc[r] = "gather"
  /\ Joined(tasks[r])
  /\ tasks' = [tasks EXCEPT ![r] =
                 [i \in 1..Len(tasks[r]) |->
                    [tasks[r][i] EXCEPT !.result = GatherResults(tasks[r], resolved[r])[i]]]]
  /\ pc' = [pc EXCEPT ![r] = "tool_resp"]
  /\ idx' = [idx EXCEPT ![r] = 1]
  /\ combined' = [combined EXCEPT ![r] = <<>>]
  /\ UNCHANGED <<endpoint, arg, ret, outcome, max_iterations, current_session_id, n_sessions, db, now, start_time,
                 iterations, messages, response, tool_calls, attempt, events,
                 llm_calls, invoked, returned, resolved>>

(* stream_run, line 293: gather has no return_exceptions, so the first     *)
(* exception of a task propagates out of the await and out of stream_run   *)
GatherRaise(r) ==
  /\ pc[r] = "gather"
  /\ \E i \in 1..Len(tasks[r]) : tasks[r][i].state = "raised"
  /\ pc' = [pc EXCEPT ![r] = "raised"]
  /\ UNCHANGED <<endpoint, arg, ret, outcome, max_iterations, current_session_id, n_sessions, db, now, start_time,
                 iterations, messages, response, tool_calls, tasks, idx, combined,
                 attempt, events, llm_calls, invoked, returned, resolved>>

(* "\n\n".join(parts) *)
RECURSIVE Join(_)
Join(parts) ==
  IF parts = <<>> THEN <<>>
  ELSE IF Len(parts) = 1 THEN Head(parts)
  ELSE Head(parts) \o <<"\n\n">> \o Join(Tail(parts))

(* a variant that feeds back the output of the last invocation only *)
ToolMessageLastOnly(parts) ==
  [role |-> "user",
   content |-> <<TOOL_RESPONSE_START, "\n">> \o parts[Len(parts)] \o <<"\n", TOOL_RESPONSE_END>>]

(* stream_run, lines 330-334: the one merged tool-result message *)
ToolMessage(parts) ==
  [role |-> "user",
   content |-> <<TOOL_RESPONSE_START, "\n">> \o Join(parts) \o <<"\n", TOOL_RESPONSE_END>>]

(* stream_run, lines 298-334: one pass of the for loop over results, and the *)
(* append of the merged message after the last pass                          *)
ToolResponse(r) ==
  /\ pc[r] = "tool_resp"
  /\ LET t == tasks[r][idx[r]]
         parts == Append(combined[r], <<"Tool '", t.name, "' Output:\n">> \o t.result)
     IN /\ db' = db \o <<Row(r, "tool"), Row(r, "tool_response")>>
        /\ events' = [events EXCEPT ![r] =
                        Append(@, Event("tool_response", t.result, t.name, iterations[r], ""))]
        /\ combined' = [combined EXCEPT ![r] = parts]
        /\ IF idx[r] = Len(tasks[r])
           THEN /\ messages' = [messages EXCEPT ![TranscriptOf(r)] = Append(@, ToolMessage(parts))]
                /\ pc' = [pc EXCEPT ![r] = "token"]
                /\ UNCHANGED idx
           ELSE /\ idx' = [idx EXCEPT ![r] = @ + 1]
                /\ UNCHANGED <<messages, pc>>
  /\ UNCHANGED <<endpoint, arg, ret, outcome, max_iterations, current_session_id, n_sessions, now, start_time,
                 iterations, response, tool_calls, tasks, attempt, llm_calls, invoked, returned, resolved>>

(* a variant that prunes as long as one more iteration is left *)
TokenPolicyNoMargin(token_count, n, ceiling) ==
  IF token_count > max_tokens
  THEN IF n < ceiling THEN "prune" ELSE "force"
  ELSE "none"

(* a variant that forces the summary whatever the estimate is *)
TokenPolicyAlwaysForce(token_count, n, ceiling) == "force"

(* stream_run, lines 338-345: what the token check decides *)
TokenPolicy(token_count, n, ceiling) ==
  IF token_count > max_tokens
  THEN IF n < ceiling - 3 THEN "prune" ELSE "force"
  ELSE "none"

(* stream_run, lines 337-348, and _force_summarize, lines 525-528 *)
TokenCheck(r) ==
  /\ pc[r] = "token"
  /\ IF TokenPolicy(CountTokens(messages[TranscriptOf(r)]), iterations[r], max_iterations) # "none"
     THEN IF TokenPolicy(CountTokens(messages[TranscriptOf(r)]), iterations[r], max_iterations) = "prune"
          THEN /\ messages' = [messages EXCEPT ![TranscriptOf(r)] = PruneMessages(@)]
               /\ events' = [events EXCEPT ![r] =
                               Append(@, Status(<<"Context pruned to save tokens.">>))]
               /\ db' = Append(db, Row(r, "status"))
               /\ pc' = [pc EXCEPT ![r] = "iter"]
               /\ UNCHANGED <<attempt, llm_calls, outcome>>
          ELSE /\ events' = [events EXCEPT ![r] =
                               Append(@, Status(<<"Token limit reached, forcing final summary...">>))]
               /\ db' = Append(db, Row(r, "status"))
               /\ messages' = [messages EXCEPT ![TranscriptOf(r)][Len(messages[TranscriptOf(r)])].content = <<FORCE_SUMMARIZE_PROMPT>>]
               /\ attempt' = [attempt EXCEPT ![r] = 0]
               /\ llm_calls' = [llm_calls EXCEPT ![r] = @ + 1]
               /\ outcome' = [outcome EXCEPT ![r] = "none"]
               /\ pc' = [pc EXCEPT ![r] = "force_llm"]
     ELSE /\ pc' = [pc EXCEPT ![r] = "iter"]
          /\ UNCHANGED <<messages, events, db, attempt, llm_calls, outcome>>
  /\ UNCHANGED <<endpoint, arg, ret, max_iterations, current_session_id, n_sessions, now, start_time,
                 iterations, response, tool_calls, tasks, idx, combined, invoked, returned, resolved>>

Next ==
  \/ Tick
  \/ \E r \in SoloRuns :
       \/ Start(r)
       \/ Classified(r)
       \/ Timeout(r)
       \/ IterBegin(r)
       \/ MaxIterations(r)
       \/ LLMRespond(r)
       \/ LLMRetry(r)
       \/ LLMGiveUp(r)
       \/ ToolStart(r)
       \/ GatherCall(r)
       \/ \E i \in 1..2 : ToolReturns(r, i) \/ ToolRaises(r, i)
       \/ GatherReturn(r)
       \/ GatherRaise(r)
       \/ ToolResponse(r)
       \/ TokenCheck(r)

Spec == Init /\ [][Next]_vars

(* ---- two runs of stream_run at the same time on the one agent of get_agent ---- *)

(* largest iteration ceiling of the concurrent runs *)
MaxConcurrentIter == 2

(* most iterations the concurrent runs begin between them *)
MaxConcurrentTurns == 3

(* the responses the model gives to the concurrent runs *)
ConcurrentContents == {C_ANSWER, C_TOOL, C_LONG}

ConcurrentInit ==
  /\ max_iterations \in 1..MaxConcurrentIter
  /\ AgentInit
  /\ endpoint = NoRequest
  /\ arg = <<>>
  /\ ret = NotCalled

LLMRespondConcurrent(r) == LLMReturns(r, ConcurrentContents)

(* an iteration of a concurrent run begins while the runs have turns left *)
IterBeginConcurrent(r) ==
  /\ iterations["A"] + iterations["B"] < MaxConcurrentTurns
  /\ IterBegin(r)

ConcurrentNext ==
  \E r \in Runs :
    \/ Start(r)
    \/ Classified(r)
    \/ IterBeginConcurrent(r)
    \/ MaxIterations(r)
    \/ LLMRespondConcurrent(r)
    \/ ToolStart(r)
    \/ GatherCall(r)
    \/ ToolReturns(r, 1)
    \/ GatherReturn(r)
    \/ ToolResponse(r)
    \/ TokenCheck(r)

ConcurrentSpec == ConcurrentInit /\ [][ConcurrentNext]_vars

(* ---- stream_research: the SSE endpoint over one run of stream_run ---- *)

(* largest max_iterations a request carries *)
MaxStreamIter == 2

(* settings.max_llm_call_per_run, scaled down *)
max_llm_call_per_run == 2

(* the responses the model gives to the streamed run *)
StreamContents == {C_ANSWER, C_TOOL}

(* research.py, line 49: research_request.max_iterations or the setting; *)
(* 0 stands for a request that leaves the field out                       *)
RequestedIterations(m) == IF m = 0 THEN max_llm_call_per_run ELSE m

(* a line of the event stream: "data: " + json.dumps(event) + "\n\n" *)
DataLine(event) == <<"data: ", event, "\n\n">>

(* a variant of the loop body that forwards the event whatever the check says *)
ForwardsAlways(is_disconnected) == TRUE

(* research.py, lines 68-76: the event is forwarded unless the check of the *)
(* connection, made first, says the caller is gone                           *)
Forwards(is_disconnected) == ~is_disconnected

StreamInit ==
  /\ max_iterations = max_llm_call_per_run
  /\ AgentInit
  /\ endpoint = NoRequest
  /\ arg = <<>>
  /\ ret = NotCalled

(* event_generator, lines 45-64: take the shared agent, set its ceiling from *)
(* the request, record the task and send task_created                        *)
StreamOpen(m) ==
  /\ endpoint.pc = "idle"
  /\ max_iterations' = RequestedIterations(m)
  /\ endpoint' = [endpoint EXCEPT
                    !.pc = "pulling",
                    !.task = "RUNNING",
                    !.forwarded = <<DataLine([type |-> "task_created"])>>]
  /\ UNCHANGED <<arg, ret, outcome, current_session_id, n_sessions, db, now, pc, start_time,
                 iterations, messages, response, tool_calls, tasks, idx, combined,
                 attempt, events, llm_calls, invoked, returned, resolved>>

(* the caller closes the connection; the server learns of it only by asking *)
Disconnect ==
  /\ endpoint.pc = "pulling"
  /\ ~endpoint.disconnected
  /\ endpoint' = [endpoint EXCEPT !.disconnected = TRUE]
  /\ UNCHANGED <<arg, ret, outcome, max_iterations, current_session_id, n_sessions, db, now, pc,
                 start_time, iterations, messages, response, tool_calls, tasks, idx, combined,
                 attempt, events, llm_calls, invoked, returned, resolved>>

(* async for, line 66: the generator of stream_run runs only while the loop *)
(* waits for its next event, so it steps when every event it has produced   *)
(* has been taken                                                            *)
Pulling(r) ==
  /\ endpoint.pc = "pulling"
  /\ endpoint.taken = Len(events[r])

(* the body of the loop, lines 67-77, for the next event of the run, and on *)
(* break the update of the task, lines 80-88                                 *)
StreamTake(r) ==
  /\ endpoint.pc = "pulling"
  /\ endpoint.taken < Len(events[r])
  /\ LET event == events[r][endpoint.taken + 1]
         final == IF event.type = "final_answer" THEN event.content
                  ELSE endpoint.final_answer_data
     IN endpoint' =
          IF Forwards(endpoint.disconnected)
          THEN [endpoint EXCEPT
                  !.observed = endpoint.disconnected,
                  !.taken = @ + 1,
                  !.final_answer_data = final,
                  !.forwarded = Append(@, DataLine(event))]
          ELSE [endpoint EXCEPT
                  !.observed = TRUE,
                  !.taken = @ + 1,
                  !.task = "COMPLETED",
                  !.pc = "closed"]
  /\ UNCHANGED <<arg, ret, outcome, max_iterations, current_session_id, n_sessions, db, now, pc,
                 start_time, iterations, messages, response, tool_calls, tasks, idx, combined,
                 attempt, events, llm_calls, invoked, returned, resolved>>

(* lines 79-88: stream_run is exhausted; the task is updated and the stream ends *)
StreamEnd(r) ==
  /\ Pulling(r)
  /\ pc[r] = "done"
  /\ endpoint' = [endpoint EXCEPT !.task = "COMPLETED", !.pc = "closed"]
  /\ UNCHANGED <<arg, ret, outcome, max_iterations, current_session_id, n_sessions, db, now, pc,
                 start_time, iterations, messages, response, tool_calls, tasks, idx, combined,
                 attempt, events, llm_calls, invoked, returned, resolved>>

(* lines 90-96: an exception leaves stream_run; the task fails and an error *)
(* line is sent                                                              *)
StreamRaise(r) ==
  /\ Pulling(r)
  /\ pc[r] = "raised"
  /\ endpoint' = [endpoint EXCEPT
                    !.task = "FAILED",
                    !.pc = "closed",
                    !.forwarded = Append(@, DataLine([type |-> "error"]))]
  /\ UNCHANGED <<arg, ret, outcome, max_iterations, current_session_id, n_sessions, db, now, pc,
                 start_time, iterations, messages, response, tool_calls, tasks, idx, combined,
                 attempt, events, llm_calls, invoked, returned, resolved>>

LLMRespondStream(r) == LLMReturns(r, StreamContents)

(* a step of the generator of stream_run, taken while the loop pulls *)
StreamRun(r) ==
  /\ Pulling(r)
  /\ \/ Start(r)
     \/ Classified(r)
     \/ IterBegin(r)
     \/ MaxIterations(r)
     \/ LLMRespondStream(r)
     \/ ToolStart(r)
     \/ GatherCall(r)
     \/ ToolReturns(r, 1)
     \/ ToolRaises(r, 1)
     \/ GatherReturn(r)
     \/ GatherRaise(r)
     \/ ToolResponse(r)
     \/ TokenCheck(r)

StreamNext ==
  \/ \E m \in 0..MaxStreamIter : StreamOpen(m)
  \/ Disconnect
  \/ \E r \in SoloRuns :
       \/ StreamRun(r)
       \/ StreamTake(r)
       \/ StreamEnd(r)
       \/ StreamRaise(r)

StreamSpec == StreamInit /\ [][StreamNext]_vars

(* run, lines 130-148: what the consumer of stream_run keeps of each event *)
RECURSIVE RunFold(_, _)
RunFold(evs, acc) ==
  IF evs = <<>> THEN acc
  ELSE LET event == Head(evs)
       IN RunFold(Tail(evs),
                  IF event.type = "final_answer"
                  THEN [prediction |-> event.content, iterations |-> event.iteration,
                        termination |-> event.termination]
                  ELSE IF event.type = "error"
                  THEN [acc EXCEPT !.prediction = event.content, !.termination = "error"]
                  ELSE IF event.type = "timeout"
                  THEN [acc EXCEPT !.prediction = <<"Timeout">>, !.termination = "timeout"]
                  ELSE acc)

(* run, lines 125-158: the ResearchResult built from the events of stream_run *)
run(evs) == RunFold(evs, [prediction |-> <<>>, iterations |-> 0, termination |-> "unknown"])

(* ---- _prune_messages applied on its own to transcripts of every length ---- *)

(* the i-th message of a transcript: system prompt, question, then assistant *)
(* and user turns; its content is i tokens long, so no two messages are equal *)
TranscriptMessage(i, token) ==
  [role |-> IF i = 1 THEN "system" ELSE IF i % 2 = 0 THEN "user" ELSE "assistant",
   content |-> [k \in 1..i |-> token]]

Transcripts ==
  {[i \in 1..Len(f) |-> TranscriptMessage(i, f[i])] :
     f \in UNION {[1..n -> {"ok", "obs"}] : n \in 0..MaxPruneLen}}

PruneInit ==
  /\ max_iterations = 1
  /\ AgentInit
  /\ endpoint = NoRequest
  /\ arg \in Transcripts
  /\ ret = NotCalled

(* messages = self._prune_messages(messages), line 342 *)
CallPruneMessages ==
  /\ ~ret.done
  /\ ret' = [done |-> TRUE, value |-> PruneMessages(arg)]
  /\ UNCHANGED <<endpoint, arg, outcome, max_iterations, current_session_id, n_sessions, db, now, pc,
                 start_time, iterations, messages, response, tool_calls, tasks, idx,
                 combined, attempt, events, llm_calls, invoked, returned, resolved>>

PruneNext == CallPruneMessages

PruneSpec == PruneInit /\ [][PruneNext]_vars

(* ---- the protocol codec applied to a model output on its own ---- *)

(* longest model output, in tokens, handed to the answer and think extraction *)
MaxTextLen == 5

(* most segments of a model output handed to the tool-call extraction *)
MaxSegments == 3

(* the tokens of a model output that the answer and think extraction look at *)
CodecTokens ==
  {THINK_START, THINK_END, ANSWER_START, ANSWER_END, TOOL_CALL_START, "42", " "}

CodecTexts == UNION {[1..n -> CodecTokens] : n \in 0..MaxTextLen}

(* the pieces of a model output that the tool-call extraction looks at: closed *)
(* blocks with a body that parses, padded or not, closed blocks that do not    *)
(* yield a call, an open delimiter left unclosed, raw code, and plain text     *)
Segments ==
  {<<TOOL_CALL_START, J_SEARCH, TOOL_CALL_END>>,
   <<TOOL_CALL_START, J_PI, TOOL_CALL_END>>,
   <<TOOL_CALL_START, "\n", J_PARAMS, "\n", TOOL_CALL_END>>,
   <<TOOL_CALL_START, J_GARBAGE, TOOL_CALL_END>>,
   <<TOOL_CALL_START, J_NONAME, TOOL_CALL_END>>,
   <<TOOL_CALL_START, J_TRUNC, TOOL_CALL_END>>,
   <<TOOL_CALL_START, J_PI>>,
   <<CODE_START, " ", "1", CODE_END>>,
   <<CODE_START, "1">>,
   <<"checking">>}

RECURSIVE Concat(_)
Concat(segs) == IF segs = <<>> THEN <<>> ELSE Head(segs) \o Concat(Tail(segs))

ToolTexts == {Concat(f) : f \in UNION {[1..n -> Segments] : n \in 0..MaxSegments}}

CodecInit ==
  /\ max_iterations = 1
  /\ AgentInit
  /\ endpoint = NoRequest
  /\ arg \in CodecTexts \cup ToolTexts
  /\ ret = NotCalled

(* self._has_answer(response), line 243 *)
CallHasAnswer ==
  /\ ~ret.done
  /\ ret' = [done |-> TRUE, value |-> [fn |-> "_has_answer", result |-> HasAnswer(arg)]]
  /\ UNCHANGED <<endpoint, arg, outcome, max_iterations, current_session_id, n_sessions, db, now, pc,
                 start_time, iterations, messages, response, tool_calls, tasks, idx,
                 combined, attempt, events, llm_calls, invoked, returned, resolved>>

(* self._extract_answer(response), line 244 *)
CallExtractAnswer ==
  /\ ~ret.done
  /\ ret' = [done |-> TRUE, value |-> [fn |-> "_extract_answer", result |-> ExtractAnswer(arg)]]
  /\ UNCHANGED <<endpoint, arg, outcome, max_iterations, current_session_id, n_sessions, db, now, pc,
                 start_time, iterations, messages, response, tool_calls, tasks, idx,
                 combined, attempt, events, llm_calls, invoked, returned, resolved>>

(* stream_run, lines 225-236: think_content of the response *)
CallExtractThink ==
  /\ ~ret.done
  /\ ret' = [done |-> TRUE, value |-> [fn |-> "think_content", result |-> ExtractThink(arg)]]
  /\ UNCHANGED <<endpoint, arg, outcome, max_iterations, current_session_id, n_sessions, db, now, pc,
                 start_time, iterations, messages, response, tool_calls, tasks, idx,
                 combined, attempt, events, llm_calls, invoked, returned, resolved>>

(* self._extract_tool_calls(response), line 260 *)
CallExtractToolCalls ==
  /\ ~ret.done
  /\ ret' = [done |-> TRUE,
             value |-> [fn |-> "_extract_tool_calls", result |-> ExtractToolCalls(arg)]]
  /\ UNCHANGED <<endpoint, arg, outcome, max_iterations, current_session_id, n_sessions, db, now, pc,
                 start_time, iterations, messages, response, tool_calls, tasks, idx,
                 combined, attempt, events, llm_calls, invoked, returned, resolved>>

CodecNext ==
  \/ CallHasAnswer
  \/ CallExtractAnswer
  \/ CallExtractThink
  \/ CallExtractToolCalls

CodecSpec == CodecInit /\ [][CodecNext]_vars

(* ---- _count_tokens applied to a transcript before and after an append ---- *)

(* the messages appended to a transcript: an empty one, a short one, a tool result *)
AppendedMessages ==
  {[role |-> "assistant", content |-> <<>>],
   [role |-> "assistant", content |-> <<"ok">>],
   [role |-> "user", content |-> <<TOOL_RESPONSE_START, "obs", TOOL_RESPONSE_END>>]}

EstimateInit ==
  /\ max_iterations = 1
  /\ AgentInit
  /\ endpoint = NoRequest
  /\ arg \in Transcripts
  /\ ret = NotCalled

(* self._count_tokens(messages), line 337, on a transcript and again after *)
(* messages.append(m)                                                     *)
CallCountTokens(m) ==
  /\ ~ret.done
  /\ ret' = [done |-> TRUE,
             value |-> [appended |-> m,
                        before |-> CountTokens(arg),
                        after |-> CountTokens(Append(arg, m))]]
  /\ UNCHANGED <<endpoint, arg, outcome, max_iterations, current_session_id, n_sessions, db, now, pc,
                 start_time, iterations, messages, response, tool_calls, tasks, idx,
                 combined, attempt, events, llm_calls, invoked, returned, resolved>>

EstimateNext == \E m \in AppendedMessages : CallCountTokens(m)

EstimateSpec == EstimateInit /\ [][EstimateNext]_vars

(* ---- _call_llm on its own, with its sleeps: react_agent.py:367-396 ---- *)

(* largest max_retries a call of _call_llm is given; 10 is the default *)
MaxRetriesBound == 10

(* line 369 *)
base_sleep_time == 1

Min(a, b) == IF a < b THEN a ELSE b

(* a variant without the cap of 30 *)
SleepTimeUncapped(a) == base_sleep_time * (2 ^ a)

(* line 393: sleep_time = min(base_sleep_time * (2 ** attempt), 30) *)
SleepTime(a) == Min(base_sleep_time * (2 ^ a), 30)

(* line 392: if attempt < max_retries - 1 *)
SleepsAfter(a, retries) == a < retries - 1

(* the call in progress at attempt a, having slept the times of sleeps *)
Calling(a, sleeps) ==
  [done |-> FALSE, value |-> [attempt |-> a, sleeps |-> sleeps, result |-> <<>>]]

(* what the create call of one attempt does: raise, or return this content *)
CreateOutcomes == {<<"raise">>, C_BLANK, C_ANSWER, C_TOOL}

GatewayInit ==
  /\ max_iterations = 1
  /\ AgentInit
  /\ endpoint = NoRequest
  /\ arg \in 1..MaxRetriesBound
  /\ ret = Calling(0, <<>>)

(* one pass of the for loop, lines 371-394, and line 396 after the last one *)
CallLLMAttempt(content) ==
  /\ ~ret.done
  /\ LET a == ret.value.attempt
         failed == content = <<"raise">> \/ Strip(content) = <<>>
         sleeps == IF SleepsAfter(a, arg) THEN Append(ret.value.sleeps, SleepTime(a))
                   ELSE ret.value.sleeps
     IN ret' = IF ~failed
               THEN [done |-> TRUE,
                     value |-> [attempt |-> a, sleeps |-> ret.value.sleeps,
                                result |-> Strip(content)]]
               ELSE IF a + 1 < arg
               THEN Calling(a + 1, sleeps)
               ELSE [done |-> TRUE,
                     value |-> [attempt |-> a, sleeps |-> sleeps, result |-> <<LLM_FAILED>>]]
  /\ UNCHANGED <<endpoint, arg, outcome, max_iterations, current_session_id, n_sessions, db, now, pc,
                 start_time, iterations, messages, response, tool_calls, tasks, idx,
                 combined, attempt, events, llm_calls, invoked, returned, resolved>>

GatewayNext == \E content \in CreateOutcomes : CallLLMAttempt(content)

GatewaySpec == GatewayInit /\ [][GatewayNext]_vars

(* ---- one run long enough for _prune_messages to drop messages ---- *)

(* largest iteration ceiling of the long run; pruning that drops messages *)
(* needs a ceiling of 8                                                   *)
MaxBudgetIter == 8

(* the responses the model gives to the long run *)
BudgetContents == {C_ANSWER, C_TOOL, C_LONG}

BudgetInit ==
  /\ max_iterations \in 1..MaxBudgetIter
  /\ AgentInit
  /\ endpoint = NoRequest
  /\ arg = <<>>
  /\ ret = NotCalled

LLMRespondBudget(r) == LLMReturns(r, BudgetContents)

BudgetNext ==
  \E r \in SoloRuns :
    \/ Start(r)
    \/ Classified(r)
    \/ IterBegin(r)
    \/ MaxIterations(r)
    \/ LLMRespondBudget(r)
    \/ LLMRetry(r)
    \/ LLMGiveUp(r)
    \/ ToolStart(r)
    \/ GatherCall(r)
    \/ ToolReturns(r, 1)
    \/ GatherReturn(r)
    \/ ToolResponse(r)
    \/ TokenCheck(r)

BudgetSpec == BudgetInit /\ [][BudgetNext]_vars

(* every model call and every tool call returns, and the event loop keeps *)
(* running the generator: a step that can be taken is taken               *)
FairBudgetSpec == BudgetSpec /\ WF_vars(BudgetNext)

(* ---- a run whose model thinks, answers, calls two tools or writes at length ---- *)

(* largest iteration ceiling of these runs *)
MaxOrderIter == 5

(* the responses the model gives to these runs *)
OrderContents == {C_ANSWER, C_MIXED, C_NOOP, C_LONG}

OrderInit ==
  /\ max_iterations \in 1..MaxOrderIter
  /\ AgentInit
  /\ endpoint = NoRequest
  /\ arg = <<>>
  /\ ret = NotCalled

LLMRespondOrder(r) == LLMReturns(r, OrderContents)

OrderNext ==
  \/ Tick
  \/ \E r \in SoloRuns :
       \/ Start(r)
       \/ Classified(r)
       \/ Timeout(r)
       \/ IterBegin(r)
       \/ MaxIterations(r)
       \/ LLMRespondOrder(r)
       \/ LLMRetry(r)
       \/ LLMGiveUp(r)
       \/ ToolStart(r)
       \/ GatherCall(r)
       \/ \E i \in 1..2 : ToolReturns(r, i) \/ ToolRaises(r, i)
       \/ GatherReturn(r)
       \/ GatherRaise(r)
       \/ ToolResponse(r)
       \/ TokenCheck(r)

OrderSpec == OrderInit /\ [][OrderNext]_vars

(* ---- background research tasks on the one agent of get_agent ---- *)

(* largest max_iterations a task request carries *)
MaxTaskIter == 5

(* most iterations the runs of the tasks begin between them *)
MaxTaskTurns == 2

(* request.max_iterations of the tasks: the smallest and the largest *)
TaskRequests == {1, MaxTaskIter}

(* the responses the model gives to the runs of the tasks *)
TaskContents == {C_ANSWER, C_TOOL, C_LONG}

(* no row of the research_tasks table for a task id *)
NoTask == [status |-> "none", termination_reason |-> "", iterations |-> 0]

(* the background task of each request and the research_tasks table *)
task(r) == endpoint.task[r]

research_tasks(r) == endpoint.research_tasks[r]

(* update_research_task, session_manager.py lines 267-289: an UPDATE ... WHERE *)
(* task_id = %s changes the row if there is one                                *)
update_research_task(r, row) ==
  IF research_tasks(r) = NoTask THEN endpoint.research_tasks
  ELSE [endpoint.research_tasks EXCEPT ![r] = row]

TaskInit ==
  /\ max_iterations = max_llm_call_per_run
  /\ AgentInit
  /\ endpoint = [task |-> [r \in Runs |-> "none"], research_tasks |-> [r \in Runs |-> NoTask]]
  /\ arg \in [Runs -> TaskRequests]
  /\ ret = NotCalled

(* create_async_research, research.py lines 141-174: insert the pending row *)
(* and queue _run_research_task                                             *)
create_async_research(r) ==
  /\ task(r) = "none"
  /\ endpoint' = [endpoint EXCEPT !.task[r] = "queued",
                                  !.research_tasks[r] = [NoTask EXCEPT !.status = "pending"]]
  /\ UNCHANGED <<arg, ret, outcome, max_iterations, current_session_id, n_sessions, db, now, pc,
                 start_time, iterations, messages, response, tool_calls, tasks, idx, combined,
                 attempt, events, llm_calls, invoked, returned, resolved>>

(* _run_research_task, research.py line 180: the task marks itself running *)
TaskMarkRunning(r) ==
  /\ task(r) = "queued"
  /\ endpoint' = [endpoint EXCEPT
                    !.task[r] = "marked",
                    !.research_tasks = update_research_task(r, [research_tasks(r) EXCEPT !.status = "running"])]
  /\ UNCHANGED <<arg, ret, outcome, max_iterations, current_session_id, n_sessions, db, now, pc,
                 start_time, iterations, messages, response, tool_calls, tasks, idx, combined,
                 attempt, events, llm_calls, invoked, returned, resolved>>

(* _run_research_task, research.py lines 182-188, and stream_run up to its *)
(* first await, react_agent.py lines 166-172: take the shared agent, set   *)
(* its ceiling from the request, and begin the run                         *)
TaskBeginRun(r) ==
  /\ task(r) = "marked"
  /\ pc[r] = "idle"
  /\ max_iterations' = RequestedIterations(arg[r])
  /\ endpoint' = [endpoint EXCEPT !.task[r] = "run"]
  /\ start_time' = [start_time EXCEPT ![r] = now]
  /\ events' = [events EXCEPT ![r] = Append(@, Status(<<"Identifying research intent...">>))]
  /\ db' = IF current_session_id # 0 THEN Append(db, Row(r, "status")) ELSE db
  /\ pc' = [pc EXCEPT ![r] = "classify"]
  /\ UNCHANGED <<arg, ret, outcome, current_session_id, n_sessions, now, iterations, messages,
                 response, tool_calls, tasks, idx, combined, attempt, llm_calls, invoked, returned,
                 resolved>>

(* _run_research_task, research.py lines 188-204: agent.run has returned or *)
(* raised, and the task stores the outcome                                  *)
TaskEndRun(r) ==
  /\ task(r) = "run"
  /\ pc[r] \in {"done", "raised"}
  /\ endpoint' = [endpoint EXCEPT
                    !.task[r] = "finished",
                    !.research_tasks = update_research_task(r,
                       IF pc[r] = "raised"
                       THEN [research_tasks(r) EXCEPT !.status = "failed", !.termination_reason = "error"]
                       ELSE [status |-> "completed",
                             termination_reason |-> run(events[r]).termination,
                             iterations |-> run(events[r]).iterations])]
  /\ UNCHANGED <<arg, ret, outcome, max_iterations, current_session_id, n_sessions, db, now, pc,
                 start_time, iterations, messages, response, tool_calls, tasks, idx, combined,
                 attempt, events, llm_calls, invoked, returned, resolved>>

(* cancel_research, research.py lines 335-364, for a task id that has a row: *)
(* delete the row when forced or when the task is over, otherwise mark it    *)
(* failed with the reason cancelled                                          *)
cancel_research(r, force) ==
  /\ research_tasks(r) # NoTask
  /\ endpoint' = [endpoint EXCEPT
                    !.research_tasks[r] =
                       IF force \/ research_tasks(r).status \in {"completed", "failed", "timeout"}
                       THEN NoTask
                       ELSE [research_tasks(r) EXCEPT !.status = "failed",
                                                      !.termination_reason = "cancelled"]]
  /\ UNCHANGED <<arg, ret, outcome, max_iterations, current_session_id, n_sessions, db, now, pc,
                 start_time, iterations, messages, response, tool_calls, tasks, idx, combined,
                 attempt, events, llm_calls, invoked, returned, resolved>>

LLMRespondTask(r) == LLMReturns(r, TaskContents)

(* an iteration of a task's run begins while the runs have turns left *)
IterBeginTask(r) ==
  /\ iterations["A"] + iterations["B"] < MaxTaskTurns
  /\ IterBegin(r)

TaskNext ==
  \E r \in Runs :
    \/ create_async_research(r)
    \/ TaskMarkRunning(r)
    \/ TaskBeginRun(r)
    \/ TaskEndRun(r)
    \/ \E force \in BOOLEAN : cancel_research(r, force)
    \/ Classified(r)
    \/ IterBeginTask(r)
    \/ MaxIterations(r)
    \/ LLMRespondTask(r)
    \/ ToolStart(r)
    \/ GatherCall(r)
    \/ ToolReturns(r, 1)
    \/ GatherReturn(r)
    \/ ToolResponse(r)
    \/ TokenCheck(r)

TaskSpec == TaskInit /\ [][TaskNext]_vars

(* ---- observations on a run ---- *)
Ended(r) == pc[r] \in {"done", "raised"}

NumEvents(r) == Len(events[r])

LastEvent(r) == events[r][Len(events[r])]

FinalIdx(r) == {i \in 1..Len(events[r]) : events[r][i].type = "final_answer"}

EventsOf(r, type, k) ==
  {i \in 1..Len(events[r]) : events[r][i].type = type /\ events[r][i].iteration = k}

HasEvent(r, type) == \E i \in 1..Len(events[r]) : events[r][i].type = type

(* the stream ends with Answer, Final(answer) for the current iteration *)
EndsAnswered(r) ==
  /\ pc[r] = "done"
  /\ NumEvents(r) >= 2
  /\ events[r][NumEvents(r) - 1].type = "answer"
  /\ LastEvent(r).type = "final_answer"
  /\ LastEvent(r).termination = "answer"
  /\ LastEvent(r).iteration = iterations[r]
  /\ LastEvent(r).content = events[r][NumEvents(r) - 1].content

(* no tool of the current iteration was announced or called *)
NoToolThisTurn(r) ==
  /\ EventsOf(r, "tool_start", iterations[r]) = {}
  /\ \A i \in 1..Len(invoked[r]) : invoked[r][i].iteration # iterations[r]

(* C1: every ended run of stream_run has emitted exactly one final_answer event *)
(* and that event is the last event of the stream, whatever way the run ended.  *)
C1_ExactlyOneFinalLast ==
  \A r \in Runs :
    Ended(r) => /\ Cardinality(FinalIdx(r)) = 1
                /\ LastEvent(r).type = "final_answer"

(* C2 as stated: whenever the text the model returned to the loop contains the  *)
(* answer open delimiter, the run ends with Answer, Final(answer, iteration k). *)
C2_AnswerOnRawResponse ==
  \A r \in Runs :
    (returned[r].caller = "loop" /\ Contains(returned[r].text, ANSWER_START))
      => EndsAnswered(r)

(* C2 amended: whenever the text the model returned to the loop, cut at the    *)
(* first tool-result-start delimiter, contains the answer open delimiter, the  *)
(* stream ends with Answer immediately followed by Final with termination      *)
(* answer, iterations = k and the same answer text (42 for every answering     *)
(* response of the model), and the run made k model calls and no tool call in  *)
(* iteration k.                                                                *)
C2_AnswerTerminates ==
  \A r \in Runs :
    (returned[r].caller = "loop"
       /\ Contains(TruncateAtToolResponse(returned[r].text), ANSWER_START))
      => /\ EndsAnswered(r)
         /\ LastEvent(r).content = <<"42">>
         /\ llm_calls[r] = iterations[r]
         /\ NoToolThisTurn(r)

C2_Witness ==
  \E r \in Runs :
    /\ returned[r] = [caller |-> "loop", text |-> C_ANSWER]
    /\ iterations[r] = 1
    /\ EndsAnswered(r)
    /\ LastEvent(r).content = <<"42">>

(* C3 as stated: whenever the text the model returned to the loop contains both *)
(* an answer delimiter and a tool-call delimiter, the run ends as answered and  *)
(* no tool of that turn is announced or called.                                 *)
C3_AnswerPriorityOnRawResponse ==
  \A r \in Runs :
    (returned[r].caller = "loop"
       /\ Contains(returned[r].text, ANSWER_START)
       /\ Contains(returned[r].text, TOOL_CALL_START))
      => /\ pc[r] = "done"
         /\ LastEvent(r).termination = "answer"
         /\ NoToolThisTurn(r)

(* C3 amended: whenever the text the model returned to the loop, cut at the     *)
(* first tool-result-start delimiter, contains both an answer delimiter and a   *)
(* tool-call delimiter (in either order), the run ends as answered and no tool  *)
(* of that turn is announced or called.                                         *)
C3_AnswerPriority ==
  \A r \in Runs :
    (returned[r].caller = "loop"
       /\ Contains(TruncateAtToolResponse(returned[r].text), ANSWER_START)
       /\ Contains(TruncateAtToolResponse(returned[r].text), TOOL_CALL_START))
      => /\ pc[r] = "done"
         /\ LastEvent(r).type = "final_answer"
         /\ LastEvent(r).termination = "answer"
         /\ NoToolThisTurn(r)

C3_Witness ==
  \E r \in Runs :
    /\ returned[r] = [caller |-> "loop", text |-> C_TOOL_ANSWER]
    /\ iterations[r] = 2
    /\ pc[r] = "done"
    /\ LastEvent(r).termination = "answer"
    /\ NoToolThisTurn(r)

(* C4: a run that ended after max_iterations iterations with no answer event   *)
(* (neither answered nor force-summarized) ends with an error event followed   *)
(* by a final_answer event whose termination is max_iterations_exceeded and    *)
(* whose iterations is max_iterations; that final event is the only one and    *)
(* nothing follows it.                                                         *)
C4_MaxIterationsExceeded ==
  \A r \in Runs :
    (pc[r] = "done" /\ iterations[r] = max_iterations
       /\ ~HasEvent(r, "answer") /\ ~HasEvent(r, "timeout"))
      => /\ NumEvents(r) >= 2
         /\ events[r][NumEvents(r) - 1].type = "error"
         /\ LastEvent(r).type = "final_answer"
         /\ LastEvent(r).termination = "max_iterations_exceeded"
         /\ LastEvent(r).iteration = max_iterations
         /\ FinalIdx(r) = {NumEvents(r)}

C4_Witness ==
  \E r \in Runs :
    /\ pc[r] = "done"
    /\ max_iterations = 3
    /\ iterations[r] = 3
    /\ invoked[r] # <<>>
    /\ LastEvent(r).termination = "max_iterations_exceeded"

(* a step of run r that yields a timeout event *)
YieldsTimeout(r) ==
  /\ Len(events'[r]) = Len(events[r]) + 1
  /\ events'[r][Len(events'[r])].type = "timeout"

(* C5: a timeout event is yielded only by the check at the head of an          *)
(* iteration, only when the elapsed time is strictly above the ceiling, and    *)
(* that step ends the run without counting an iteration or starting a model    *)
(* call; an iteration that would start past the ceiling is not started; no     *)
(* step taken while a model call or a tool batch is in flight times out.       *)
C5_TimeoutAtIterationStart ==
  [][\A r \in Runs :
       /\ YieldsTimeout(r) =>
            /\ pc[r] = "iter"
            /\ now - start_time[r] > timeout_minutes
            /\ pc'[r] = "done"
            /\ iterations'[r] = iterations[r]
            /\ llm_calls'[r] = llm_calls[r]
            /\ messages'[r] = messages[r]
       /\ (pc[r] = "iter" /\ iterations[r] < max_iterations /\ pc'[r] # "iter"
             /\ now - start_time[r] > timeout_minutes) => YieldsTimeout(r)
       /\ (pc[r] \in {"llm", "force_llm", "gather"} /\ pc'[r] = "done")
            => LastEvent(r)'.type = "final_answer"
    ]_vars

C5_Witness ==
  \E r \in Runs :
    /\ pc[r] = "done"
    /\ LastEvent(r).type = "timeout"
    /\ iterations[r] = 1
    /\ llm_calls[r] = 1
    /\ invoked[r] # <<>>

(* C6: once the tool phase of an iteration is over, every iteration has as many *)
(* tool_response events as tool_start events, and every tool_response of an     *)
(* iteration comes after all tool_start events of that iteration.               *)
C6_StartedAndFinishedPairUp ==
  \A r \in Runs :
    pc[r] \in {"iter", "llm", "token", "force_llm", "done", "raised"} =>
      \A k \in 1..(MaxIterBound + 1) :
        /\ Cardinality(EventsOf(r, "tool_start", k)) = Cardinality(EventsOf(r, "tool_response", k))
        /\ \A i \in EventsOf(r, "tool_start", k) : \A j \in EventsOf(r, "tool_response", k) : i < j

RECURSIVE NamesIn(_)
NamesIn(content) ==
  IF Len(content) < 2 THEN <<>>
  ELSE IF Head(content) = "Tool '" THEN <<content[2]>> \o NamesIn(Tail(content))
  ELSE NamesIn(Tail(content))

(* the text after the k-th "' Output:\n" token, up to the next separator *)
RECURSIVE OutputsIn(_)
OutputsIn(content) ==
  IF content = <<>> THEN <<>>
  ELSE IF Head(content) = "' Output:\n"
  THEN LET rest == Tail(content)
           stop == IF Contains(rest, "\n\n") THEN IndexOf(rest, "\n\n")
                   ELSE IndexOf(rest, "\n")
       IN <<SubSeq(rest, 1, stop - 1)>> \o OutputsIn(rest)
  ELSE OutputsIn(Tail(content))

(* the text a task of this name resolves to *)
ExpectedOutput(name) ==
  IF name = "ghost"
  THEN <<"[Error] Tool '", "ghost", "' not found. Available: ", "[", "'", "search", "'", ", ",
         "'", "google_scholar", "'", ", ", "'", "visit", "'", ", ", "'", "PythonInterpreter",
         "'", "]">>
  ELSE <<"ok">>

C9_RaisingToolIsContained ==
  \A r \in Runs :
    (\E i \in 1..Len(tasks[r]) : tasks[r][i].state = "raised") => pc[r] # "raised"

LeavesTokenCheck(r) == pc[r] = "token" /\ pc'[r] # "token"

(* C11: the token policy after an iteration that did not end in an answer.    *)
(* With estimate the characters of the transcript divided by four and         *)
(* remaining = max_iterations - iterations: if estimate <= limit the          *)
(* transcript and the event stream are left as they are and the loop goes on; *)
(* if estimate > limit and remaining > 3 the transcript becomes the pruned    *)
(* transcript, a status event reports it, no model call is made and the loop  *)
(* goes on; if estimate > limit and remaining <= 3 forced summarization       *)
(* starts, and a forced summarization starts no iteration and can only end    *)
(* the run, with a token-limit termination.                                   *)
C11_TokenPolicy ==
  [][\A r \in Runs :
       /\ LeavesTokenCheck(r) =>
            LET estimate == TotalChars(messages[r]) \div 4
                remaining == max_iterations - iterations[r]
            IN /\ estimate <= max_tokens =>
                    /\ messages'[r] = messages[r]
                    /\ events'[r] = events[r]
                    /\ pc'[r] = "iter"
               /\ (estimate > max_tokens /\ remaining > 3) =>
                    /\ messages'[r] = PruneMessages(messages[r])
                    /\ events'[r] = Append(events[r], Status(<<"Context pruned to save tokens.">>))
                    /\ llm_calls'[r] = llm_calls[r]
                    /\ pc'[r] = "iter"
               /\ (estimate > max_tokens /\ remaining <= 3) =>
                    /\ pc'[r] = "force_llm"
                    /\ llm_calls'[r] = llm_calls[r] + 1
                    /\ LastEvent(r)'.content = <<"Token limit reached, forcing final summary...">>
       /\ pc[r] = "force_llm" =>
            /\ pc'[r] \in {"force_llm", "done"}
            /\ iterations'[r] = iterations[r]
            /\ pc'[r] = "done" =>
                 /\ LastEvent(r)'.type = "final_answer"
                 /\ LastEvent(r)'.termination \in {"token_limit_forced_answer",
                                                   "token_limit_format_error"}
    ]_vars

C11_Witness ==
  \E r \in Runs :
    /\ max_iterations = 5
    /\ iterations[r] = 3
    /\ pc[r] = "force_llm"
    /\ CountTokens(SubSeq(messages[r], 1, Len(messages[r]) - 1)) <= max_tokens
    /\ LastEvent(r).content = <<"Token limit reached, forcing final summary...">>

(* some message of src is missing from res *)
Dropped(src, res) == \E i \in 1..Len(src) : \A j \in 1..Len(res) : res[j] # src[i]

(* C12: for a transcript of any length, _prune_messages returns at most nine  *)
(* messages, the first two of which are the first two of the input, and no    *)
(* message twice; when a message of the input is dropped the result is        *)
(* exactly the first two messages, one system note that is not a message of   *)
(* the input, and the last six messages of the input in their order; when     *)
(* none is dropped the result is the input.                                   *)
C12_PruneShape ==
  ret.done =>
    LET src == arg
        res == ret.value
        n == Len(arg)
    IN /\ Len(res) <= 9
       /\ \A i \in 1..2 : i <= n => (i <= Len(res) /\ res[i] = src[i])
       /\ \A i \in 1..Len(res) : \A j \in 1..Len(res) : i # j => res[i] # res[j]
       /\ Dropped(src, res) =>
            /\ Len(res) = 9
            /\ res[3].role = "system"
            /\ res[3].content[1] = "[System Note: Earlier conversation turns have been removed to save tokens. Current token usage: "
            /\ \A i \in 1..n : src[i] # res[3]
            /\ \A k \in 1..6 : res[3 + k] = src[n - 6 + k]
       /\ ~Dropped(src, res) => res = src

C12_Witness ==
  /\ ret.done
  /\ Len(arg) = 10
  /\ Len(ret.value) = 9
  /\ Dropped(arg, ret.value)
  /\ ret.value[4] = arg[5]
  /\ ret.value[9] = arg[10]

(* the iteration status events of iteration k *)
IterationStatus(r, k) == EventsOf(r, "status", k)

(* C13: a forced summarization makes exactly one more _call_llm call than the *)
(* iterations made; when that call has returned, its response (stripped) is    *)
(* the last message of the transcript, as an assistant message, and the run    *)
(* has ended with an answer event followed by the final event, whose           *)
(* termination is token_limit_forced_answer if the response contains the       *)
(* answer open delimiter and token_limit_format_error otherwise and whose      *)
(* iterations is the iteration the check ran in; no iteration status follows   *)
(* the status that announced the forced summary.                               *)
C13_ForcedSummarization ==
  \A r \in Runs :
    /\ pc[r] = "force_llm" => llm_calls[r] = iterations[r] + 1
    /\ returned[r].caller = "forced" =>
         /\ pc[r] = "done"
         /\ llm_calls[r] = iterations[r] + 1
         /\ messages[r][Len(messages[r])] =
              [role |-> "assistant", content |-> Strip(returned[r].text)]
         /\ NumEvents(r) >= 3
         /\ events[r][NumEvents(r) - 2] = Status(<<"Token limit reached, forcing final summary...">>)
         /\ events[r][NumEvents(r) - 1].type = "answer"
         /\ LastEvent(r).type = "final_answer"
         /\ LastEvent(r).content = events[r][NumEvents(r) - 1].content
         /\ LastEvent(r).iteration = iterations[r]
         /\ LastEvent(r).termination =
              IF Contains(returned[r].text, ANSWER_START) THEN "token_limit_forced_answer"
              ELSE "token_limit_format_error"
         /\ \A k \in 1..(MaxIterBound + 1) :
              Cardinality(IterationStatus(r, k)) = IF k <= iterations[r] THEN 1 ELSE 0
         /\ FinalIdx(r) = {NumEvents(r)}

C13_Witness ==
  \E r \in Runs :
    /\ returned[r] = [caller |-> "forced", text |-> C_TOOL_ANSWER]
    /\ pc[r] = "done"
    /\ iterations[r] = 2
    /\ llm_calls[r] = 3
    /\ LastEvent(r).termination = "token_limit_forced_answer"
    /\ LastEvent(r).content = <<"42">>

(* position of the latest user-turn message of a transcript; 0 when none *)
LatestUserTurn(msgs) ==
  IF \E i \in 1..Len(msgs) : msgs[i].role = "user"
  THEN CHOOSE i \in 1..Len(msgs) :
         msgs[i].role = "user" /\ \A j \in (i + 1)..Len(msgs) : msgs[j].role # "user"
  ELSE 0

(* C14: the step that starts a forced summarization writes the directive into *)
(* the content of the latest user-turn message and leaves every other message *)
(* of the transcript, every assistant message in particular, as it was.       *)
C14_DirectiveInUserTurn ==
  [][\A r \in Runs :
       (pc[r] = "token" /\ pc'[r] = "force_llm") =>
         /\ Len(messages'[r]) = Len(messages[r])
         /\ \A i \in 1..Len(messages[r]) :
              messages'[r][i] =
                IF i = LatestUserTurn(messages[r])
                THEN [role |-> "user", content |-> <<FORCE_SUMMARIZE_PROMPT>>]
                ELSE messages[r][i]
    ]_vars

(* C15: while _call_llm is running the attempt index stays below max_retries; *)
(* a further attempt is made only after an attempt that raised or got blank   *)
(* content; the call returns in the step of the first attempt that got text,  *)
(* and returns that text, which is not empty; it returns after a failed       *)
(* attempt only when that was attempt number max_retries, and then it returns *)
(* the sentinel string; no step of the call ends the run with an exception.   *)
C15_CallLLMRetries ==
  [][\A r \in Runs :
       pc[r] \in {"llm", "force_llm"} =>
         /\ attempt[r] \in 0..(max_retries - 1)
         /\ pc'[r] # "raised"
         /\ attempt'[r] # attempt[r] =>
              /\ attempt'[r] = attempt[r] + 1
              /\ attempt'[r] <= max_retries - 1
              /\ outcome'[r] \in {"raise", "blank"}
              /\ pc'[r] = pc[r]
              /\ returned'[r] = returned[r]
              /\ llm_calls'[r] = llm_calls[r]
         /\ pc'[r] # pc[r] =>
              /\ attempt'[r] = attempt[r]
              /\ outcome'[r] \in {"text", "raise", "blank"}
              /\ outcome'[r] = "text" =>
                   /\ returned'[r].text # <<>>
                   /\ returned'[r].text = Strip(returned'[r].text)
                   /\ returned'[r].text # <<LLM_FAILED>>
              /\ outcome'[r] # "text" =>
                   /\ attempt[r] + 1 = max_retries
                   /\ returned'[r].text = <<LLM_FAILED>>
    ]_vars

C15_Witness ==
  \E r \in Runs :
    /\ attempt[r] = max_retries - 1
    /\ attempt[r] > 0
    /\ outcome[r] = "text"
    /\ returned[r] = [caller |-> "loop", text |-> C_ANSWER]
    /\ pc[r] = "done"

(* C16: when _call_llm has given up in an iteration, an error event for that  *)
(* iteration has been emitted after the iteration status of that iteration.   *)
C16_ExhaustionEmitsFailure ==
  \A r \in Runs :
    (returned[r].caller = "loop" /\ returned[r].text = <<LLM_FAILED>> /\ pc[r] \in {"token", "iter"})
      => \E i \in 1..NumEvents(r) :
           /\ events[r][i].type = "error"
           /\ \A j \in IterationStatus(r, iterations[r]) : j < i

(* C17: no assistant message of the transcript contains the tool-result-start *)
(* delimiter.                                                                 *)
C17_NoToolResponseInAssistant ==
  \A r \in Runs :
    \A i \in 1..Len(messages[r]) :
      messages[r][i].role = "assistant" => ~Contains(messages[r][i].content, TOOL_RESPONSE_START)

(* the events that end a stream: the final event and the timeout event *)
TerminalEvents(r) ==
  {i \in 1..NumEvents(r) : events[r][i].type \in {"final_answer", "timeout"}}

LastTerminal(r) ==
  events[r][CHOOSE i \in TerminalEvents(r) : \A j \in TerminalEvents(r) : j <= i]

(* C18: for every run that has ended without an exception, the termination,   *)
(* prediction and iterations of the result of run are those of the last       *)
(* terminal event of the stream, and iterations is the number of iterations   *)
(* the run made.                                                              *)
C18_RunKeepsLastTerminalEvent ==
  \A r \in Runs :
    pc[r] = "done" =>
      /\ TerminalEvents(r) # {}
      /\ run(events[r]).termination =
           (IF LastTerminal(r).type = "timeout" THEN "timeout" ELSE LastTerminal(r).termination)
      /\ run(events[r]).prediction = LastTerminal(r).content
      /\ run(events[r]).iterations = LastTerminal(r).iteration
      /\ run(events[r]).iterations = iterations[r]

(* C19: a run that an exception has ended has emitted an error event followed *)
(* by a final event with termination error, and nothing after them.           *)
C19_EscapedExceptionIsReported ==
  \A r \in Runs :
    pc[r] = "raised" =>
      /\ NumEvents(r) >= 2
      /\ events[r][NumEvents(r) - 1].type = "error"
      /\ LastEvent(r).type = "final_answer"
      /\ LastEvent(r).termination = "error"

(* a step in which the loop takes a response with no answer delimiter and no *)
(* parsed tool invocation                                                     *)
NoOpTurn(r) ==
  /\ pc[r] = "llm"
  /\ pc'[r] # "llm"
  /\ ~Contains(response'[r], ANSWER_START)
  /\ tool_calls'[r] = <<>>

(* the token check that follows such a turn *)
AfterNoOpTurn(r) == pc[r] = "token" /\ tool_calls[r] = <<>> /\ pc'[r] # "token"

(* what a no-op turn does to the transcript, the events and the budget *)
NoOpTurnFrame(r) ==
  /\ Len(messages'[r]) = Len(messages[r]) + 1
  /\ SubSeq(messages'[r], 1, Len(messages[r])) = messages[r]
  /\ messages'[r][Len(messages'[r])] = [role |-> "assistant", content |-> Strip(response'[r])]
  /\ \A i \in (NumEvents(r) + 1)..Len(events'[r]) : events'[r][i].type = "think"
  /\ invoked'[r] = invoked[r]
  /\ iterations'[r] = iterations[r]
  /\ llm_calls'[r] = iterations[r]
  /\ Cardinality(IterationStatus(r, iterations[r])) = 1
  /\ pc'[r] = "token"

(* C20 as stated: a no-op turn appends exactly the assistant message, emits no *)
(* tool event, is the one model call of its iteration, and the loop then goes  *)
(* on to the head of the next iteration with the transcript as it is.          *)
C20_NoOpIterationContinues ==
  [][\A r \in Runs :
       /\ NoOpTurn(r) => NoOpTurnFrame(r)
       /\ AfterNoOpTurn(r) =>
            /\ messages'[r] = messages[r]
            /\ pc'[r] = "iter"
    ]_vars

(* C20 amended: a no-op turn appends exactly the assistant message, emits no  *)
(* tool event and is the one model call of its iteration; the token check     *)
(* that follows leaves the transcript and the events as they are and goes on  *)
(* to the head of the next iteration when the estimate is within the limit,   *)
(* and otherwise either prunes and goes on or starts the forced summary,      *)
(* making no tool call and counting no iteration.                             *)
C20_NoOpIteration ==
  [][\A r \in Runs :
       /\ NoOpTurn(r) => NoOpTurnFrame(r)
       /\ AfterNoOpTurn(r) =>
            /\ invoked'[r] = invoked[r]
            /\ iterations'[r] = iterations[r]
            /\ TotalChars(messages[r]) \div 4 <= max_tokens =>
                 /\ messages'[r] = messages[r]
                 /\ events'[r] = events[r]
                 /\ pc'[r] = "iter"
            /\ TotalChars(messages[r]) \div 4 > max_tokens =>
                 /\ pc'[r] \in {"iter", "force_llm"}
                 /\ Len(events'[r]) = NumEvents(r) + 1
                 /\ LastEvent(r)'.type = "status"
    ]_vars

C20_Witness ==
  \E r \in Runs :
    /\ pc[r] = "iter"
    /\ iterations[r] = 1
    /\ max_iterations >= 2
    /\ returned[r] = [caller |-> "loop", text |-> Strip(C_NOOP)]
    /\ Len(messages[r]) = 3
    /\ messages[r][3] = [role |-> "assistant", content |-> Strip(C_NOOP)]
    /\ EventsOf(r, "tool_start", 1) = {}
    /\ LastEvent(r).type = "think"

(* the merged tool-result messages of a transcript: the user messages after *)
(* the question; a forced summary replaces the content of the last message  *)
(* by its directive                                                         *)
ToolMessagesIn(msgs) ==
  {i \in 3..Len(msgs) :
     /\ msgs[i].role = "user"
     /\ msgs[i].content[1] \in {TOOL_RESPONSE_START, FORCE_SUMMARIZE_PROMPT}}

(* the iterations of run r whose tool batch was joined and reported *)
ReportedBatches(r) ==
  {k \in 1..iterations[r] :
     /\ EventsOf(r, "tool_response", k) # {}
     /\ (k = iterations[r] => pc[r] # "tool_resp")}

InFlight(r) == {i \in 1..Len(tasks[r]) : tasks[r][i].state = "running"}

CallArgument(r) == messages[TranscriptOf(r)]

(* C23: with two runs in progress on the one agent, a step changes the        *)
(* transcript of a run only if that run took it, and the list a model call of  *)
(* a run receives opens with the system prompt and that run's own question     *)
(* and, after them, at most two messages for each iteration of that run.      *)
C23_TranscriptOwnedByRun ==
  [][\A r \in Runs :
       /\ messages'[r] # messages[r] =>
            \A q \in Runs \ {r} :
              /\ pc'[q] = pc[q]
              /\ events'[q] = events[q]
              /\ llm_calls'[q] = llm_calls[q]
       /\ pc'[r] \in {"llm", "force_llm"} =>
            /\ Len(CallArgument(r)') >= 2
            /\ CallArgument(r)'[1] = [role |-> "system", content |-> <<SYSTEM_PROMPT>>]
            /\ CallArgument(r)'[2] = [role |-> "user", content |-> <<question(r)>>]
            /\ Len(CallArgument(r)') <= 2 + 2 * iterations'[r]
    ]_vars

C23_Witness ==
  /\ pc["A"] = "llm"
  /\ pc["B"] = "llm"
  /\ iterations["A"] = 2
  /\ iterations["B"] = 1
  /\ Len(messages["A"]) = 4
  /\ messages["A"][2].content = <<QUESTION>>
  /\ messages["B"] = <<[role |-> "system", content |-> <<SYSTEM_PROMPT>>],
                       [role |-> "user", content |-> <<QUESTION_B>>]>>

(* C24: in the streaming endpoint a step after which the caller has been     *)
(* observed to be gone forwards nothing: the event at which the check of the  *)
(* connection fails is not sent, the loop is left at once, and no line is     *)
(* sent afterwards.                                                           *)
C24_NothingForwardedAfterDisconnect ==
  [][endpoint'.observed =>
       /\ endpoint'.forwarded = endpoint.forwarded
       /\ endpoint'.pc = "closed"
    ]_vars

C24_Witness ==
  /\ endpoint.observed
  /\ endpoint.pc = "closed"
  /\ endpoint.task = "COMPLETED"
  /\ endpoint.taken >= 2
  /\ Len(endpoint.forwarded) = endpoint.taken
  /\ events["A"][endpoint.taken].type = "answer"
  /\ endpoint.final_answer_data = <<>>

(* a function of the codec has been applied to arg *)
Called(fn) == ret.done /\ ret.value.fn = fn

(* t is s without its leading and trailing whitespace *)
IsTrimOf(t, s) ==
  \E a \in 0..Len(s) :
    /\ a + Len(t) <= Len(s)
    /\ t = SubSeq(s, a + 1, a + Len(t))
    /\ \A i \in 1..a : IsSpace(s[i])
    /\ \A i \in (a + Len(t) + 1)..Len(s) : IsSpace(s[i])
    /\ t # <<>> => (~IsSpace(t[1]) /\ ~IsSpace(t[Len(t)]))

Positions(s, t) == {i \in 1..Len(s) : s[i] = t}

(* C25: applied to a text with an answer open delimiter and no closing        *)
(* delimiter, _extract_answer returns a non-empty text that is not the         *)
(* delimiter.                                                                  *)
C25_UnclosedAnswerNonEmpty ==
  (/\ Called("_extract_answer")
   /\ Positions(arg, ANSWER_START) # {}
   /\ Positions(arg, ANSWER_END) = {})
    => /\ ret.value.result # <<>>
       /\ ret.value.result # <<ANSWER_START>>

(* the open delimiters of s that have a close delimiter after them *)
MatchedOpens(s, open, close) ==
  {i \in Positions(s, open) : \E j \in Positions(s, close) : j > i}

Least(S) == CHOOSE i \in S : \A j \in S : i <= j

Greatest(S) == CHOOSE i \in S : \A j \in S : i >= j

(* C26: _has_answer is true exactly when the answer open delimiter occurs in   *)
(* the text; _extract_answer returns the trimmed text between the first open   *)
(* delimiter that has a close after it and the nearest such close, when there  *)
(* is one, otherwise the trimmed text after the last open delimiter, when      *)
(* there is one, otherwise the whole text trimmed.                             *)
C26_AnswerCodec ==
  /\ Called("_has_answer") => (ret.value.result <=> Positions(arg, ANSWER_START) # {})
  /\ Called("_extract_answer") =>
       LET opens == Positions(arg, ANSWER_START)
           matched == MatchedOpens(arg, ANSWER_START, ANSWER_END)
       IN IF matched # {}
          THEN LET i == Least(matched)
                   j == Least({k \in Positions(arg, ANSWER_END) : k > i})
               IN IsTrimOf(ret.value.result, SubSeq(arg, i + 1, j - 1))
          ELSE IF opens # {}
          THEN IsTrimOf(ret.value.result, SubSeq(arg, Greatest(opens) + 1, Len(arg)))
          ELSE IsTrimOf(ret.value.result, arg)

C26_Witness ==
  /\ Called("_extract_answer")
  /\ arg = <<"42", ANSWER_START, " ", "42", ANSWER_END>>
  /\ ret.value.result = <<"42">>

(* C27: the think content of a response holds no tool-call open delimiter and  *)
(* no answer open delimiter, and, when it is not empty, lies in the text       *)
(* before the first of these delimiters in the response.                       *)
C27_ThoughtBeforeDelimiters ==
  Called("think_content") =>
    LET cuts == Positions(arg, TOOL_CALL_START) \cup Positions(arg, ANSWER_START)
        limit == IF cuts = {} THEN Len(arg) ELSE Least(cuts) - 1
        res == ret.value.result
    IN /\ Positions(res, TOOL_CALL_START) = {}
       /\ Positions(res, ANSWER_START) = {}
       /\ res # <<>> =>
            \E a \in 0..limit :
              /\ a + Len(res) <= limit
              /\ res = SubSeq(arg, a + 1, a + Len(res))

(* the bodies of the closed tool-call blocks of a text, left to right: each    *)
(* block runs from an open delimiter to the nearest close delimiter after it   *)
RECURSIVE BlockBodies(_, _)
BlockBodies(content, k) ==
  LET m == RegexSearchFrom(content, TOOL_CALL_START, TOOL_CALL_END, k)
  IN IF m.found THEN <<m.body>> \o BlockBodies(content, m.end + 1) ELSE <<>>

(* the invocation a well-formed body stands for: a JSON object with a name and *)
(* its arguments, which the lenient parser reads with or without padding and   *)
(* the last closing brace                                                       *)
WellFormedBodies == {J_SEARCH, J_PI, J_PARAMS, J_TRUNC}

Invocation(j) ==
  CASE j = J_SEARCH -> [name |-> "search", arguments |-> <<"{query:['x']}">>]
    [] j = J_PI -> [name |-> "PythonInterpreter", arguments |-> <<"{code:'1'}">>]
    [] j = J_PARAMS -> [name |-> "search", arguments |-> <<"{query:['y']}">>]
    [] j = J_TRUNC -> [name |-> "search", arguments |-> <<"'x'">>]

WellFormed(body) ==
  \E j \in WellFormedBodies : IsTrimOf(<<j>>, body)

RECURSIVE InvocationsOf(_)
InvocationsOf(bodies) ==
  IF bodies = <<>> THEN <<>>
  ELSE (IF WellFormed(Head(bodies))
        THEN <<Invocation(CHOOSE j \in WellFormedBodies : IsTrimOf(<<j>>, Head(bodies)))>>
        ELSE <<>>) \o InvocationsOf(Tail(bodies))

(* the trimmed content of the first matched raw code block of a text *)
HasCodeBlock(content) == MatchedOpens(content, CODE_START, CODE_END) # {}

CodeOf(content) ==
  LET i == Least(MatchedOpens(content, CODE_START, CODE_END))
      j == Least({k \in Positions(content, CODE_END) : k > i})
  IN Strip(SubSeq(content, i + 1, j - 1))

(* the invocation made for a raw code block, not for a tool-call block *)
IsImplicit(content, call) ==
  /\ HasCodeBlock(content)
  /\ call = [name |-> "PythonInterpreter", arguments |-> CodeOf(content)]

Delays == <<1, 2, 4, 8, 16, 30, 30, 30, 30, 30, 30>>

(* C31: within one call of _call_llm the sleeps made so far are the first     *)
(* delays of 1, 2, 4, 8, 16, 30, 30, ..., one after each failed attempt that   *)
(* is not the last allowed one: while the call runs there is one sleep per     *)
(* failed attempt, and a call that gives up after max_retries attempts has     *)
(* slept max_retries - 1 times.                                                *)
C31_BackoffDelays ==
  LET sleeps == ret.value.sleeps
  IN /\ sleeps = SubSeq(Delays, 1, Len(sleeps))
     /\ Len(sleeps) = ret.value.attempt
     /\ Len(sleeps) <= arg - 1
     /\ (ret.done /\ ret.value.result = <<LLM_FAILED>>) => Len(sleeps) = arg - 1

C31_Witness ==
  /\ ret.done
  /\ arg = 10
  /\ ret.value.result = <<LLM_FAILED>>
  /\ ret.value.sleeps = <<1, 2, 4, 8, 16, 30, 30, 30, 30>>

(* ---- the order of the events of an iteration ---- *)
IsIterationStatus(e) == e.type = "status" /\ e.iteration >= 1

IsPrunedStatus(e) == e.type = "status" /\ e.content = <<"Context pruned to save tokens.">>

IsForcingStatus(e) ==
  e.type = "status" /\ e.content = <<"Token limit reached, forcing final summary...">>

(* the events that end a run at the head of the loop, outside any iteration *)
IsLoopExit(e) == e.type \in {"timeout", "error"}

IterationStarts(r) == {i \in 1..NumEvents(r) : IsIterationStatus(events[r][i])}

(* the events of the iteration whose status is event i: up to the next      *)
(* iteration status or the exit of the loop                                  *)
IterationEvents(r, i) ==
  LET evs == events[r]
      stops == {j \in (i + 1)..Len(evs) : IsIterationStatus(evs[j]) \/ IsLoopExit(evs[j])}
      last == IF stops = {} THEN Len(evs) ELSE Least(stops) - 1
  IN SubSeq(evs, i, last)

(* the place of an event in the order status, thought, then answer and final *)
(* or tool starts and tool results, then token-budget status                 *)
Rank(e) ==
  CASE IsIterationStatus(e) -> 0
    [] e.type = "think" -> 1
    [] e.type \in {"answer", "tool_start"} -> 2
    [] e.type \in {"final_answer", "tool_response"} -> 3
    [] IsPrunedStatus(e) \/ IsForcingStatus(e) -> 4
    [] OTHER -> 9

CountOf(seg, types) == Cardinality({i \in 1..Len(seg) : seg[i].type \in types})

(* status, at most one thought, then answer and final or tool starts and    *)
(* then tool results, then at most one token-budget status                  *)
InOrder(seg) ==
  /\ seg # <<>>
  /\ IsIterationStatus(seg[1])
  /\ \A i \in 1..Len(seg) : Rank(seg[i]) <= 4
  /\ \A i \in 2..Len(seg) : Rank(seg[i - 1]) <= Rank(seg[i])
  /\ \A i \in 2..Len(seg) : Rank(seg[i]) # 0
  /\ CountOf(seg, {"think"}) <= 1
  /\ CountOf(seg, {"answer"}) <= 1
  /\ CountOf(seg, {"final_answer"}) = CountOf(seg, {"answer"})
  /\ CountOf(seg, {"answer"}) > 0 => CountOf(seg, {"tool_start", "tool_response"}) = 0
  /\ Cardinality({i \in 1..Len(seg) : Rank(seg[i]) = 4}) <= 1

(* the same order, where the status of a forced summary is followed by the *)
(* answer and the final event of that summary                                *)
InOrderOrForced(seg) ==
  \/ InOrder(seg)
  \/ \E b \in {Len(seg) - 2} \cap (1..Len(seg)) :
       /\ IsForcingStatus(seg[b])
       /\ InOrder(SubSeq(seg, 1, b))
       /\ CountOf(SubSeq(seg, 1, b), {"answer"}) = 0
       /\ Len(seg) = b + 2
       /\ seg[b + 1].type = "answer"
       /\ seg[b + 2].type = "final_answer"
       /\ seg[b + 2].termination \in {"token_limit_forced_answer", "token_limit_format_error"}

(* the iteration statuses count 1, 2, ... and each event that carries an   *)
(* iteration number lies in the iteration of that number                    *)
IterationsInSequence(r) ==
  LET starts == IterationStarts(r)
  IN \A i \in starts :
       LET seg == IterationEvents(r, i)
           k == events[r][i].iteration
       IN /\ k = Cardinality({j \in starts : j <= i})
          /\ \A j \in 1..Len(seg) : seg[j].iteration \in {0, k}

(* C32 as stated: in every iteration the events are the iteration status,   *)
(* at most one thought, then answer and final or the tool starts followed by *)
(* the tool results, then at most one token-budget status and nothing more.  *)
C32_EventOrderAsStated ==
  \A r \in Runs :
    /\ IterationsInSequence(r)
    /\ \A i \in IterationStarts(r) :
         LET seg == IterationEvents(r, i) IN InOrder(seg)

(* C32: in every iteration the events are the iteration status, at most one *)
(* thought, then answer and final or the tool starts followed by the tool    *)
(* results, then at most one token-budget status; after the status of a      *)
(* forced summary come the answer and the final event of that summary; the   *)
(* status of iteration k+1 comes after every event of iteration k.           *)
C32_EventOrder ==
  \A r \in SoloRuns :
    /\ IterationsInSequence(r)
    /\ \A i \in IterationStarts(r) :
         LET seg == IterationEvents(r, i) IN InOrderOrForced(seg)

C32_Witness ==
  \E r \in Runs :
    /\ Cardinality(IterationStarts(r)) = 2
    /\ LET seg == IterationEvents(r, Least(IterationStarts(r)))
       IN /\ Len(seg) = 5
          /\ seg[2].type = "tool_start"
          /\ seg[3].type = "tool_start"
          /\ seg[4].type = "tool_response"
          /\ seg[5].type = "tool_response"

(* the transcript holds the note _prune_messages puts after the first two messages *)
HasPruneNote(msgs) ==
  /\ Len(msgs) >= 3
  /\ msgs[3].role = "system"
  /\ msgs[3].content[1] = "[System Note: Earlier conversation turns have been removed to save tokens. Current token usage: "

(* C33: when a model call of iteration 2 or later is in flight, the estimate *)
(* of the transcript it was given is at most max_tokens.                      *)
C33_TranscriptWithinLimit ==
  \A r \in Runs :
    (pc[r] = "llm" /\ iterations[r] >= 2) => CountTokens(CallArgument(r)) <= max_tokens

(* C35: from the moment the transcript is created, its first two messages   *)
(* are the system prompt and the question of the run, whatever has been      *)
(* appended, pruned or rewritten since.                                      *)
C35_HeadOfTranscriptKept ==
  \A r \in Runs :
    pc[r] \notin {"idle", "classify"} =>
      /\ Len(messages[r]) >= 2
      /\ messages[r][1] = [role |-> "system", content |-> <<SYSTEM_PROMPT>>]
      /\ messages[r][2] = [role |-> "user", content |-> <<question(r)>>]

C35_Witness ==
  \E r \in Runs :
    /\ pc[r] = "done"
    /\ HasPruneNote(messages[r])
    /\ \E i \in 4..Len(messages[r]) : messages[r][i].content = <<FORCE_SUMMARIZE_PROMPT>>
    /\ LastEvent(r).termination = "token_limit_forced_answer"

(* C36: a step that emits the status of the prune branch leaves the          *)
(* transcript with fewer messages than it had.                               *)
C36_PruneShortensTranscript ==
  [][\A r \in Runs :
       (/\ NumEvents(r)' = NumEvents(r) + 1
        /\ IsPrunedStatus(events'[r][NumEvents(r) + 1]))
         => Len(messages'[r]) < Len(messages[r])
    ]_vars

(* the run has reached its forced summary *)
Forced(r) == \E i \in 1..NumEvents(r) : IsForcingStatus(events[r][i])

(* iterations started, model calls made and iteration numbers reported so far *)
WithinCeiling(r) ==
  /\ iterations[r] <= max_iterations
  /\ Cardinality(IterationStarts(r)) = iterations[r]
  /\ llm_calls[r] = iterations[r] + (IF Forced(r) THEN 1 ELSE 0)
  /\ \A i \in IterationStarts(r) :
       events[r][i].iteration = Cardinality({j \in IterationStarts(r) : j <= i})

(* C34: when every model call and every tool call returns, a run ends; it   *)
(* starts at most max_iterations iterations, calls the model once per        *)
(* iteration plus at most once for a forced summary, and the iteration       *)
(* statuses carry the numbers 1, 2, ... in order without gaps.               *)
C34_RunTerminates ==
  /\ [](\A r \in SoloRuns : WithinCeiling(r))
  /\ \A r \in SoloRuns : <>Ended(r)

C34_Witness ==
  \E r \in SoloRuns :
    /\ pc[r] = "done"
    /\ max_iterations >= 2
    /\ iterations[r] = max_iterations
    /\ llm_calls[r] = max_iterations
    /\ LastEvent(r).termination = "max_iterations_exceeded"

(* the sessions run r created: those holding the user-question record it wrote *)
SessionsCreatedBy(r) == {db[j].session : j \in {k \in 1..Len(db) : db[k].run = r /\ db[k].role = "user"}}

(* C37: every record a run has persisted is in the session that run created. *)
C37_RecordsInOwnSession ==
  \A i \in 1..Len(db) :
    \A r \in Runs :
      (db[i].run = r /\ pc[r] \notin {"idle", "classify"}) => db[i].session \in SessionsCreatedBy(r)

(* the ceiling the request of task r asked for *)
Requested(r) == RequestedIterations(arg[r])

(* iterations begun by run r before its i-th event *)
IterationAt(r, i) == Cardinality({j \in IterationStarts(r) : j < i})

(* C38: the run of a task begins at most as many iterations as its request   *)
(* asked for, reports the ceiling as reached only at that number, and prunes *)
(* or forces a summary as that number tells it to.                           *)
C38_CeilingOfTheRun ==
  \A r \in Runs :
    task(r) \in {"run", "finished"} =>
      /\ iterations[r] <= Requested(r)
      /\ (pc[r] = "done" /\ LastEvent(r).termination = "max_iterations_exceeded")
           => iterations[r] = Requested(r)
      /\ \A i \in 1..NumEvents(r) :
           /\ IsPrunedStatus(events[r][i]) => IterationAt(r, i) < Requested(r) - 3
           /\ IsForcingStatus(events[r][i]) => ~(IterationAt(r, i) < Requested(r) - 3)

(* the row of task r says the task was cancelled *)
IsCancelled(row) == row.status = "failed" /\ row.termination_reason = "cancelled"

(* C39: once the row of a task says failed with the reason cancelled, no     *)
(* step of the task's background run changes its status.                     *)
C39_CancelledStays ==
  [][\A r \in Runs :
       (IsCancelled(research_tasks(r)) /\ endpoint'.research_tasks[r] # NoTask)
         => IsCancelled(endpoint'.research_tasks[r])
    ]_vars

====
